---------------------------- MODULE Spec2Model ----------------------------
(***************************************************************************)
(* PortfolioSentinel: the indicator engine (indicators.py) and the scoring *)
(* and narrative engine (scoring.py), as the analysis pipeline of app.py   *)
(* runs them (Spec); the portfolio of app.py and its file (SpecCartera);   *)
(* the Telegram bot and the portfolio monitor of telegram_bot.py (SpecBot).*)
(*                                                                         *)
(* Numbers.  Python floats are modelled as fixed-point integers in         *)
(* hundredths: a close of 150.30 is 15030, a PER of 28.4 is 2840, a beta   *)
(* of 1.2 is 120, a growth of -3.2 % is -320.  round(x, 2) is therefore a  *)
(* rounding to the nearest integer (ties to even, as Python rounds; a      *)
(* decimal tie is not always a tie of the binary float Python rounds, so a *)
(* value on a half hundredth may differ from Python's by one hundredth).   *)
(* Ratio tests such as  per / per_sector < 0.7  are decided exactly by     *)
(* cross-multiplication once the code's guard has made the divisor         *)
(* positive; whether a division is reached with a zero divisor is modelled *)
(* by the *_raises operators.                                              *)
(*                                                                         *)
(* Dictionaries are functions from key strings; {} is <<>>; None is the    *)
(* record None below.  d.get(k, default) is Get(d, k, default).  The       *)
(* formatted texts ("texto" fields, paragraphs, findings) are modelled by  *)
(* tags naming the template that produced them.                            *)
(***************************************************************************)
EXTENDS Integers, Sequences, FiniteSets, TLC

VARIABLES
    pc,                \* position in the pipeline of app.py
    company_data,      \* the snapshot returned by data_fetcher
    datos_historicos,  \* company_data["historical_prices"]
    indicadores,       \* the bundle of calcular_todos_indicadores
    analisis,          \* the result of generar_analisis_completo
    excepcion,         \* the exception that ended the pipeline, "" if none
    cartera,           \* st.session_state.cartera, the list of positions
    archivo,           \* the content of data/cartera.xlsx, None if absent
    ahora,             \* the clock read by datetime.now()
    guardado,          \* what the last guardar_cartera_a_excel returned
    pc_bot,            \* what has been done with the bot
    secretos,          \* st.secrets
    bot,               \* the TelegramBot
    cartera_actual,    \* monitorear_cambios_cartera: the current portfolio
    cartera_anterior,  \* monitorear_cambios_cartera: the previous portfolio
    peticiones,        \* the messages posted to Telegram by the last call
    respuesta,         \* how the last requests.post ended, "" without one
    retorno            \* what the last enviar_mensaje returned

vars_analisis ==
    <<pc, company_data, datos_historicos, indicadores, analisis, excepcion>>

vars_cartera == <<cartera, archivo, ahora, guardado>>

vars_bot ==
    <<pc_bot, secretos, bot, cartera_actual, cartera_anterior, peticiones, respuesta,
      retorno>>

vars == <<vars_analisis, vars_cartera, vars_bot>>

-----------------------------------------------------------------------------
(* Python values *)

None == [isNone |-> TRUE]

EmptyDict == <<>>

\* the session before any analysis, portfolio change or notification
AnalisisSinHacer ==
    /\ pc = "idle"
    /\ company_data = EmptyDict
    /\ datos_historicos = <<>>
    /\ indicadores = None
    /\ analisis = None
    /\ excepcion = ""

CarteraSinUsar ==
    /\ cartera = <<>>
    /\ archivo = None
    /\ ahora = 0
    /\ guardado = "sin llamar"

BotSinUsar ==
    /\ pc_bot = "nuevo"
    /\ bot = None
    /\ cartera_actual = <<>>
    /\ cartera_anterior = None
    /\ peticiones = {}
    /\ respuesta = ""
    /\ retorno = "sin llamar"

Get(d, k, default) == IF k \in DOMAIN d THEN d[k] ELSE default

\* Python's truth value of a dict-or-None: None and {} are false
Falsy(d) == d = None \/ DOMAIN d = {}

Min(a, b) == IF a < b THEN a ELSE b

Max(a, b) == IF a > b THEN a ELSE b

Abs(a) == IF a < 0 THEN -a ELSE a

\* round(a / b) for b > 0, ties to the even integer
RoundDiv(a, b) ==
    LET q == a \div b
        r == a % b
    IN  IF 2 * r < b THEN q
        ELSE IF 2 * r > b THEN q + 1
        ELSE IF q % 2 = 0 THEN q ELSE q + 1

-----------------------------------------------------------------------------
(* indicators.py: helpers over price sequences (1-based, oldest first) *)

\* sum(s[lo..hi]); the halving keeps the evaluation shallow
RECURSIVE Suma(_, _, _)
Suma(s, lo, hi) ==
    IF lo > hi THEN 0
    ELSE IF lo = hi THEN s[lo]
    ELSE LET mid == (lo + hi) \div 2
         IN  Suma(s, lo, mid) + Suma(s, mid + 1, hi)

RECURSIVE Minimo(_, _, _)
Minimo(s, lo, hi) ==
    IF lo = hi THEN s[lo]
    ELSE LET mid == (lo + hi) \div 2
         IN  Min(Minimo(s, lo, mid), Minimo(s, mid + 1, hi))

\* the integer part of the square root of n >= 0, found by bisection in lo..hi
RECURSIVE RaizEntre(_, _, _)
RaizEntre(n, lo, hi) ==
    IF lo = hi THEN lo
    ELSE LET mid == (lo + hi + 1) \div 2
         IN  IF mid * mid <= n THEN RaizEntre(n, mid, hi)
             ELSE RaizEntre(n, lo, mid - 1)

RaizEntera(n) == RaizEntre(n, 0, 46340)

\* an optional number: None or Num(v)
Num(v) == [val |-> v]

\* Python's truth value of an optional number: None and 0.0 are false
Verdadero(x) == x # None /\ x.val # 0

-----------------------------------------------------------------------------
(* indicators.py: simple moving average *)

calcular_media_movil_sin_redondeo(precios_cierre, periodo) ==
    IF Len(precios_cierre) < periodo THEN None
    ELSE Num(Suma(precios_cierre, Len(precios_cierre) - periodo + 1,
                  Len(precios_cierre)) \div periodo)

calcular_media_movil(precios_cierre, periodo) ==
    IF Len(precios_cierre) < periodo THEN None
    ELSE Num(RoundDiv(Suma(precios_cierre, Len(precios_cierre) - periodo + 1,
                           Len(precios_cierre)), periodo))

-----------------------------------------------------------------------------
(* indicators.py: RSI.  The running averages are kept in thousandths of a  *)
(* hundredth; a positive average never rounds to zero, as a positive float *)
(* does not.                                                               *)

\* cambios[j] of the code, for j in 1..Len-1
cambio(precios_cierre, j) == precios_cierre[j + 1] - precios_cierre[j]

subida(precios_cierre, j) == Max(cambio(precios_cierre, j), 0)

bajada(precios_cierre, j) == Max(-cambio(precios_cierre, j), 0)

RECURSIVE SumaSubidas(_, _, _)
SumaSubidas(p, lo, hi) ==
    IF lo > hi THEN 0
    ELSE IF lo = hi THEN subida(p, lo)
    ELSE LET mid == (lo + hi) \div 2
         IN  SumaSubidas(p, lo, mid) + SumaSubidas(p, mid + 1, hi)

RECURSIVE SumaBajadas(_, _, _)
SumaBajadas(p, lo, hi) ==
    IF lo > hi THEN 0
    ELSE IF lo = hi THEN bajada(p, lo)
    ELSE LET mid == (lo + hi) \div 2
         IN  SumaBajadas(p, lo, mid) + SumaBajadas(p, mid + 1, hi)

\* n / d in thousandths-preserving arithmetic: 0 only for n = 0
DivPositiva(n, d) == IF n = 0 THEN 0 ELSE Max(1, RoundDiv(n, d))

\* avg = (avg * (periodo - 1) + nuevo) / periodo
suavizado_wilder(avg, nuevo, periodo) ==
    DivPositiva(avg * (periodo - 1) + 1000 * nuevo, periodo)

\* the smoothing loop over cambios[lo..hi]; acc = [s |-> avg_subida, b |-> avg_bajada]
RECURSIVE SuavizarRsi(_, _, _, _, _)
SuavizarRsi(p, periodo, lo, hi, acc) ==
    IF acc.s < 0 \/ lo > hi THEN acc
    ELSE IF lo = hi
         THEN [s |-> suavizado_wilder(acc.s, subida(p, lo), periodo),
               b |-> suavizado_wilder(acc.b, bajada(p, lo), periodo)]
    ELSE LET mid == (lo + hi) \div 2
         IN  SuavizarRsi(p, periodo, mid + 1, hi,
                         SuavizarRsi(p, periodo, lo, mid, acc))

\* round(100 * s / (s + b), 2) in hundredths, for s + b > 0
rsi_de_promedios(s, b) ==
    LET t == s + b
    IN  100 * ((100 * s) \div t) + RoundDiv(100 * ((100 * s) % t), t)

\* the seed averages: the mean of the LAST periodo changes (subidas[-periodo:])
semilla_rsi(precios_cierre, periodo) ==
    LET n == Len(precios_cierre) - 1
    IN  [s |-> DivPositiva(1000 * SumaSubidas(precios_cierre, n - periodo + 1, n), periodo),
         b |-> DivPositiva(1000 * SumaBajadas(precios_cierre, n - periodo + 1, n), periodo)]

calcular_rsi(precios_cierre, periodo) ==
    IF Len(precios_cierre) < periodo + 1 THEN None
    ELSE LET avg == SuavizarRsi(precios_cierre, periodo, periodo + 1,
                                Len(precios_cierre) - 1,
                                semilla_rsi(precios_cierre, periodo))
         IN  IF avg.b = 0 THEN Num(10000)
             ELSE Num(rsi_de_promedios(avg.s, avg.b))

-----------------------------------------------------------------------------
(* indicators.py: EMA and MACD.  A running EMA is kept in thousandths of a *)
(* hundredth and rounded to hundredths where the code rounds.              *)

\* ema = (precio - ema) * multiplicador + ema, multiplicador = 2 / (periodo + 1)
paso_ema(ema, precio, periodo) ==
    ema + RoundDiv(2 * (1000 * precio - ema), periodo + 1)

\* the recurrence over precios[lo..hi]
RECURSIVE AvanzarEma(_, _, _, _, _)
AvanzarEma(precios, periodo, lo, hi, ema) ==
    IF ema # ema \/ lo > hi THEN ema
    ELSE IF lo = hi THEN paso_ema(ema, precios[lo], periodo)
    ELSE LET mid == (lo + hi) \div 2
         IN  AvanzarEma(precios, periodo, mid + 1, hi,
                        AvanzarEma(precios, periodo, lo, mid, ema))

\* sum(precios[:periodo]) / periodo, unrounded
semilla_ema(precios, periodo) == RoundDiv(1000 * Suma(precios, 1, periodo), periodo)

\* the EMA of the first hasta values, unrounded
ema_cruda(precios, periodo, hasta) ==
    AvanzarEma(precios, periodo, periodo + 1, hasta, semilla_ema(precios, periodo))

calcular_media_movil_exponencial(precios, periodo) ==
    IF Len(precios) < periodo THEN None
    ELSE Num(RoundDiv(ema_cruda(precios, periodo, Len(precios)), 1000))

\* macd_series: for each prefix precios[:i+1], i in 26..len-1, the difference
\* of its rounded EMA(12) and EMA(26), kept when both are non-zero.  The
\* prefix EMAs are the running values of one pass: the from-scratch
\* recomputation of the code performs the same operations in the same order.
\* acc = [e12 |-> , e26 |-> , serie |-> ]
RECURSIVE SerieMacd(_, _, _, _)
SerieMacd(precios, lo, hi, acc) ==
    IF acc.e12 # acc.e12 \/ lo > hi THEN acc
    ELSE IF lo = hi
         THEN LET e12 == paso_ema(acc.e12, precios[lo], 12)
                  e26 == paso_ema(acc.e26, precios[lo], 26)
                  r12 == RoundDiv(e12, 1000)
                  r26 == RoundDiv(e26, 1000)
              IN  [e12 |-> e12, e26 |-> e26,
                   serie |-> IF r12 # 0 /\ r26 # 0
                             THEN Append(acc.serie, r12 - r26)
                             ELSE acc.serie]
    ELSE LET mid == (lo + hi) \div 2
         IN  SerieMacd(precios, mid + 1, hi, SerieMacd(precios, lo, mid, acc))

macd_series(precios_cierre) ==
    SerieMacd(precios_cierre, 27, Len(precios_cierre),
              [e12 |-> ema_cruda(precios_cierre, 12, 26),
               e26 |-> ema_cruda(precios_cierre, 26, 26),
               serie |-> <<>>]).serie

\* bullish as soon as the fast EMA is above the slow one, without a signal line
calcular_macd_sin_senal(precios_cierre) ==
    IF Len(precios_cierre) < 26
    THEN [macd_value |-> 0, signal_value |-> 0, is_bullish |-> FALSE]
    ELSE LET macd_value == calcular_media_movil_exponencial(precios_cierre, 12).val
                           - calcular_media_movil_exponencial(precios_cierre, 26).val
         IN  [macd_value |-> macd_value, signal_value |-> 0,
              is_bullish |-> macd_value > 0]

calcular_macd(precios_cierre) ==
    IF Len(precios_cierre) < 26
    THEN [macd_value |-> 0, signal_value |-> 0, is_bullish |-> FALSE]
    ELSE LET ema_12 == calcular_media_movil_exponencial(precios_cierre, 12)
             ema_26 == calcular_media_movil_exponencial(precios_cierre, 26)
             macd_value == ema_12.val - ema_26.val
             serie == macd_series(precios_cierre)
             signal_value ==
                 IF Len(serie) >= 9
                 THEN calcular_media_movil_exponencial(serie, 9).val
                 ELSE 0
         IN  [macd_value |-> macd_value,
              signal_value |-> signal_value,
              is_bullish |-> macd_value > signal_value]

-----------------------------------------------------------------------------
(* indicators.py: Bollinger bands.  With S the sum of the last periodo     *)
(* closes, q their offsets from the smallest and                           *)
(* V = periodo * sum(q^2) - sum(q)^2, the standard deviation is            *)
(* sqrt(V) / periodo, so that  media +- desviaciones * sigma  is           *)
(* (S +- sqrt(desviaciones^2 * V)) / periodo, which is rounded exactly.    *)

RECURSIVE SumaCuadrados(_, _, _, _)
SumaCuadrados(s, lo, hi, base) ==
    IF lo > hi THEN 0
    ELSE IF lo = hi THEN (s[lo] - base) * (s[lo] - base)
    ELSE LET mid == (lo + hi) \div 2
         IN  SumaCuadrados(s, lo, mid, base) + SumaCuadrados(s, mid + 1, hi, base)

\* round((a + sqrt(w)) / d) for an even d: floor((a + d/2 + sqrt(w)) / d),
\* ties to even when the root is exact
RedondeoMasRaiz(a, w, d) ==
    LET r == RaizEntera(w)
    IN  IF r * r = w THEN RoundDiv(a + r, d)
        ELSE (a + (d \div 2) + r) \div d

\* round((a - sqrt(w)) / d) for an even d
RedondeoMenosRaiz(a, w, d) ==
    LET r == RaizEntera(w)
    IN  IF r * r = w THEN RoundDiv(a - r, d)
        ELSE (a + (d \div 2) - r - 1) \div d

\* the position with a price on a band counted as beyond it
posicion_bollinger_en_banda(precio_actual, banda_superior, banda_inferior) ==
    IF precio_actual >= banda_superior THEN "Banda superior"
    ELSE IF precio_actual <= banda_inferior THEN "Banda inferior"
    ELSE "Banda media"

posicion_bollinger(precio_actual, banda_superior, banda_inferior) ==
    IF precio_actual > banda_superior THEN "Banda superior"
    ELSE IF precio_actual < banda_inferior THEN "Banda inferior"
    ELSE "Banda media"

calcular_bollinger(precios_cierre, periodo, desviaciones) ==
    IF Len(precios_cierre) < periodo THEN None
    ELSE LET n    == Len(precios_cierre)
             lo   == n - periodo + 1
             S    == Suma(precios_cierre, lo, n)
             base == Minimo(precios_cierre, lo, n)
             q1   == S - periodo * base
             V    == periodo * SumaCuadrados(precios_cierre, lo, n, base) - q1 * q1
             W    == desviaciones * desviaciones * V
             banda_superior == RedondeoMasRaiz(S, W, periodo)
             banda_inferior == RedondeoMenosRaiz(S, W, periodo)
         IN  [banda_superior |-> banda_superior,
              banda_media    |-> RoundDiv(S, periodo),
              banda_inferior |-> banda_inferior,
              posicion       |-> posicion_bollinger(precios_cierre[n], banda_superior,
                                                    banda_inferior)]

-----------------------------------------------------------------------------
(* indicators.py: volume, entry zone, risk levels *)

RECURSIVE SumaVolumen(_, _, _)
SumaVolumen(datos, lo, hi) ==
    IF lo > hi THEN 0
    ELSE IF lo = hi THEN Get(datos[lo], "volume", 0)
    ELSE LET mid == (lo + hi) \div 2
         IN  SumaVolumen(datos, lo, mid) + SumaVolumen(datos, mid + 1, hi)

\* "if volumen_promedio > 0", on the sum of the window
volumen_guard_bug(suma) == TRUE

volumen_guard(suma) == suma > 0

\* volumen_promedio = suma / dias_promedio;
\* variacion = (volumen_actual - volumen_promedio) / volumen_promedio * 100
analizar_volumen(datos, dias_promedio) ==
    IF Len(datos) < dias_promedio
    THEN [volumen_actual |-> 0, volumen_promedio_30d |-> 0, variacion_pct |-> 0]
    ELSE LET n == Len(datos)
             volumen_actual == Get(datos[n], "volume", 0)
             suma == SumaVolumen(datos, n - dias_promedio + 1, n)
         IN  [volumen_actual       |-> volumen_actual,
              volumen_promedio_30d |-> RoundDiv(suma, dias_promedio),
              variacion_pct        |->
                  IF volumen_guard(suma) /\ suma # 0
                  THEN RoundDiv(10000 * (dias_promedio * volumen_actual - suma), suma)
                  ELSE 0]

\* the division by volumen_promedio is reached with a zero divisor
analizar_volumen_raises(datos, dias_promedio) ==
    /\ Len(datos) >= dias_promedio
    /\ LET suma == SumaVolumen(datos, Len(datos) - dias_promedio + 1, Len(datos))
       IN  volumen_guard(suma) /\ suma = 0

\* the zone with a price on its upper edge counted as outside
calcular_zona_entrada_estricta(precios_cierre, mm200, bollinger) ==
    LET precio_actual == IF precios_cierre # <<>>
                         THEN precios_cierre[Len(precios_cierre)] ELSE 0
    IN  IF ~Verdadero(mm200) \/ Falsy(bollinger)
        THEN [zona_ideal_min |-> 0, zona_ideal_max |-> 0,
              estado |-> "Datos insuficientes", distancia_zona_pct |-> 0]
        ELSE LET zona_min == Min(mm200.val, bollinger["banda_inferior"])
                 zona_max == Max(mm200.val, bollinger["banda_inferior"])
             IN  [precio_actual      |-> precio_actual,
                  soporte_mm200      |-> mm200.val,
                  soporte_bollinger  |-> bollinger["banda_inferior"],
                  zona_ideal_min     |-> zona_min,
                  zona_ideal_max     |-> zona_max,
                  estado             |-> IF precio_actual < zona_max
                                         THEN "Zona de entrada activa"
                                         ELSE "Esperar retroceso",
                  distancia_zona_pct |->
                      IF precio_actual > zona_max /\ precio_actual > 0
                      THEN RoundDiv(10000 * (precio_actual - zona_max), precio_actual)
                      ELSE 0]

calcular_zona_entrada(precios_cierre, mm200, bollinger) ==
    LET precio_actual == IF precios_cierre # <<>>
                         THEN precios_cierre[Len(precios_cierre)] ELSE 0
    IN  IF ~Verdadero(mm200) \/ Falsy(bollinger)
        THEN [zona_ideal_min |-> 0, zona_ideal_max |-> 0,
              estado |-> "Datos insuficientes", distancia_zona_pct |-> 0]
        ELSE LET soporte_mm200 == mm200.val
                 soporte_bollinger == bollinger["banda_inferior"]
                 zona_min == Min(soporte_mm200, soporte_bollinger)
                 zona_max == Max(soporte_mm200, soporte_bollinger)
             IN  [precio_actual      |-> precio_actual,
                  soporte_mm200      |-> soporte_mm200,
                  soporte_bollinger  |-> soporte_bollinger,
                  zona_ideal_min     |-> zona_min,
                  zona_ideal_max     |-> zona_max,
                  estado             |-> IF precio_actual <= zona_max
                                         THEN "Zona de entrada activa"
                                         ELSE "Esperar retroceso",
                  distancia_zona_pct |->
                      IF precio_actual > zona_max /\ precio_actual > 0
                      THEN RoundDiv(10000 * (precio_actual - zona_max), precio_actual)
                      ELSE 0]

\* the levels with "Alto" from two points on
score_a_nivel_desde_dos(score) ==
    IF score >= 2 THEN "Alto"
    ELSE IF score >= 1 THEN "Medio"
    ELSE "Bajo"

score_a_nivel(score) ==
    IF score >= 3 THEN "Alto"
    ELSE IF score >= 1 THEN "Medio"
    ELSE "Bajo"

\* beta is a number, rsi an optional number
evaluar_riesgos(beta, rsi, volumen_variacion, bollinger_posicion) ==
    LET riesgo_cp_score ==
            (IF Verdadero(rsi) /\ rsi.val > 7000 THEN 2
             ELSE IF Verdadero(rsi) /\ rsi.val < 3000 THEN 1 ELSE 0)
            + (IF bollinger_posicion = "Banda superior" THEN 2 ELSE 0)
            + (IF volumen_variacion > 5000 THEN 1 ELSE 0)
        riesgo_mp_score ==
            (IF beta # 0 /\ beta > 150 THEN 2
             ELSE IF beta # 0 /\ beta > 100 THEN 1 ELSE 0)
            + (IF bollinger_posicion = "Banda superior" THEN 1 ELSE 0)
        riesgo_lp_score ==
            IF beta # 0 /\ beta > 180 THEN 2
            ELSE IF beta # 0 /\ beta > 130 THEN 1 ELSE 0
    IN  [riesgo_corto_plazo |-> score_a_nivel(riesgo_cp_score),
         riesgo_medio_plazo |-> score_a_nivel(riesgo_mp_score),
         riesgo_largo_plazo |-> score_a_nivel(riesgo_lp_score)]

-----------------------------------------------------------------------------
(* indicators.py: the engine *)

\* [d["close"] for d in datos_historicos]
cierres(datos) == [i \in 1..Len(datos) |-> datos[i]["close"]]

\* the signal of one moving average: None when mm is None or 0.0
senal_mm(mm, precio_actual) ==
    IF Verdadero(mm)
    THEN [valor |-> mm.val, precio_encima |-> precio_actual > mm.val]
    ELSE None

zona_rsi(rsi) ==
    IF rsi > 7000 THEN "Sobrecompra"
    ELSE IF rsi < 3000 THEN "Sobreventa"
    ELSE "Zona neutra"

\* the shortest history the engine accepts
minimo_barras_bug == 30 - 10

minimo_barras == 30

calcular_todos_indicadores(datos, beta) ==
    IF datos = <<>> \/ Len(datos) < minimo_barras THEN None
    ELSE LET precios_cierre == cierres(datos)
             precio_actual  == precios_cierre[Len(precios_cierre)]
             mm50      == calcular_media_movil(precios_cierre, 50)
             mm100     == calcular_media_movil(precios_cierre, 100)
             mm200     == calcular_media_movil(precios_cierre, 200)
             rsi       == calcular_rsi(precios_cierre, 14)
             macd      == calcular_macd(precios_cierre)
             bollinger == calcular_bollinger(precios_cierre, 20, 2)
             volumen   == analizar_volumen(datos, 30)
             bollinger_pos == IF ~Falsy(bollinger) THEN bollinger["posicion"]
                              ELSE "Banda media"
         IN  [precio_actual  |-> precio_actual,
              medias_moviles |-> [mm50  |-> senal_mm(mm50, precio_actual),
                                  mm100 |-> senal_mm(mm100, precio_actual),
                                  mm200 |-> senal_mm(mm200, precio_actual)],
              rsi            |-> IF rsi # None
                                 THEN [valor |-> rsi.val, zona |-> zona_rsi(rsi.val)]
                                 ELSE None,
              macd           |-> [valor_macd  |-> macd.macd_value,
                                  valor_senal |-> macd.signal_value,
                                  es_alcista  |-> macd.is_bullish],
              bollinger      |-> bollinger,
              volumen        |-> [volumen_actual |-> volumen.volumen_actual,
                                  promedio_30d   |-> volumen.volumen_promedio_30d,
                                  variacion_pct  |-> volumen.variacion_pct],
              zona_entrada   |-> calcular_zona_entrada(precios_cierre, mm200, bollinger),
              riesgos        |-> evaluar_riesgos(beta, rsi, volumen.variacion_pct,
                                                 bollinger_pos)]

\* the only division of the engine whose divisor can be zero is the volume's
calcular_todos_indicadores_raises(datos, beta) ==
    /\ ~(datos = <<>> \/ Len(datos) < minimo_barras)
    /\ analizar_volumen_raises(datos, 30)

-----------------------------------------------------------------------------
(* scoring.py: fundamentals block *)

\* the guard of the PER and P/B ratio divisions
ratio_guard(valor, valor_sector) ==
    valor # 0 /\ valor_sector # 0 /\ valor > 0 /\ valor_sector > 0

\* the PER bands with the fourth band paid like the third
puntos_per_sin_cuarta(per, per_sector) ==
    IF ratio_guard(per, per_sector)
    THEN IF per * 10 < 7 * per_sector THEN 8
         ELSE IF per * 10 < 9 * per_sector THEN 6
         ELSE IF per * 10 < 13 * per_sector THEN 4
         ELSE 1
    ELSE 4

puntos_per(per, per_sector) ==
    IF ratio_guard(per, per_sector)
    THEN IF per * 10 < 7 * per_sector THEN 8
         ELSE IF per * 10 < 9 * per_sector THEN 6
         ELSE IF per * 10 < 11 * per_sector THEN 4
         ELSE IF per * 10 < 13 * per_sector THEN 2
         ELSE 1
    ELSE 4

puntos_pb(pb, pb_sector) ==
    IF ratio_guard(pb, pb_sector)
    THEN IF pb * 10 < 7 * pb_sector THEN 7
         ELSE IF pb * 10 < 9 * pb_sector THEN 5
         ELSE IF pb * 10 < 11 * pb_sector THEN 4
         ELSE IF pb * 10 < 13 * pb_sector THEN 2
         ELSE 1
    ELSE 3

puntuar_precio_valoracion(fundamentals, sector_data) ==
    IF Falsy(fundamentals) \/ Falsy(sector_data) THEN 7
    ELSE Min(puntos_per(Get(fundamentals, "pe_ratio", 0),
                        Get(sector_data, "sector_pe", 0))
             + puntos_pb(Get(fundamentals, "price_to_book", 0),
                         Get(sector_data, "sector_pb", 0)), 15)

\* a division by per_sector or pb_sector is reached with a zero divisor
puntuar_precio_valoracion_raises(fundamentals, sector_data) ==
    /\ ~(Falsy(fundamentals) \/ Falsy(sector_data))
    /\ \/ /\ ratio_guard(Get(fundamentals, "pe_ratio", 0),
                         Get(sector_data, "sector_pe", 0))
          /\ Get(sector_data, "sector_pe", 0) = 0
       \/ /\ ratio_guard(Get(fundamentals, "price_to_book", 0),
                         Get(sector_data, "sector_pb", 0))
          /\ Get(sector_data, "sector_pb", 0) = 0

puntos_yield(yield_div) ==
    IF yield_div >= 400 THEN 4
    ELSE IF yield_div >= 250 THEN 3
    ELSE IF yield_div >= 150 THEN 2
    ELSE IF yield_div > 0 THEN 1
    ELSE 0

puntos_crecimiento_dividendo(crec_3y, crec_5y) ==
    IF crec_3y > 1000 /\ crec_5y > 800 THEN 4
    ELSE IF crec_3y > 500 /\ crec_5y > 300 THEN 3
    ELSE IF crec_3y > 0 /\ crec_5y > 0 THEN 2
    ELSE IF crec_3y > 0 \/ crec_5y > 0 THEN 1
    ELSE 0

puntos_payout(payout) ==
    IF 3000 <= payout /\ payout <= 6000 THEN 3
    ELSE IF (2000 <= payout /\ payout < 3000) \/ (6000 < payout /\ payout <= 7500)
         THEN 2
    ELSE IF payout > 0 THEN 1
    ELSE 0

puntos_buyback(fundamentals) ==
    IF ~Falsy(fundamentals) /\ Get(fundamentals, "has_buyback", FALSE) THEN 2 ELSE 0

puntuar_dividendo(dividends, fundamentals) ==
    IF Falsy(dividends) THEN 5
    ELSE Min(puntos_yield(Get(dividends, "dividend_yield_at_buy", 0))
             + puntos_crecimiento_dividendo(Get(dividends, "dividend_growth_3y", 0),
                                            Get(dividends, "dividend_growth_5y", 0))
             + puntos_payout(IF Falsy(fundamentals) THEN 0
                             ELSE Get(fundamentals, "payout_ratio", 0))
             + puntos_buyback(fundamentals)
             + 1,
             15)

puntos_ventas_mut(vs5) ==
    IF vs5 > 2000 THEN 8
    ELSE IF vs5 > 1000 THEN 6
    ELSE IF vs5 > 500 THEN 4
    ELSE IF vs5 > 0 THEN 2
    ELSE IF vs5 > -500 THEN 3
    ELSE 0

puntos_ventas(vs5) ==
    IF vs5 > 2000 THEN 8
    ELSE IF vs5 > 1000 THEN 6
    ELSE IF vs5 > 500 THEN 4
    ELSE IF vs5 > 0 THEN 2
    ELSE IF vs5 > -500 THEN 1
    ELSE 0

puntos_bpa(bpa5) ==
    IF bpa5 > 2500 THEN 7
    ELSE IF bpa5 > 1500 THEN 5
    ELSE IF bpa5 > 800 THEN 4
    ELSE IF bpa5 > 0 THEN 2
    ELSE IF bpa5 > -500 THEN 1
    ELSE 0

puntuar_crecimiento(fundamentals, sector_data) ==
    IF Falsy(fundamentals) THEN 7
    ELSE Min(puntos_ventas(Get(fundamentals, "sales_growth_5y", 0))
             + puntos_bpa(Get(fundamentals, "eps_growth_5y", 0)), 15)

\* the guard of the debt and margin ratio divisions
sector_guard(valor_sector) == valor_sector # 0 /\ valor_sector > 0

puntos_deuda(df, df_sector) ==
    IF sector_guard(df_sector)
    THEN IF df * 10 < 5 * df_sector THEN 8
         ELSE IF df * 10 < 8 * df_sector THEN 6
         ELSE IF df * 10 < 10 * df_sector THEN 5
         ELSE IF df * 10 < 13 * df_sector THEN 3
         ELSE IF df * 10 < 18 * df_sector THEN 2
         ELSE 1
    ELSE 4

puntos_margen(margen, margen_sector) ==
    IF sector_guard(margen_sector)
    THEN IF margen * 10 > 13 * margen_sector THEN 7
         ELSE IF margen * 10 > 11 * margen_sector THEN 5
         ELSE IF margen * 10 > 9 * margen_sector THEN 4
         ELSE IF margen * 10 > 7 * margen_sector THEN 2
         ELSE 1
    ELSE 3

puntuar_fortaleza_financiera(fundamentals, sector_data) ==
    IF Falsy(fundamentals) \/ Falsy(sector_data) THEN 7
    ELSE Min(puntos_deuda(Get(fundamentals, "debt_to_equity", 0),
                          Get(sector_data, "sector_debt_to_equity", 100))
             + puntos_margen(Get(fundamentals, "gross_margin_5y_avg", 0),
                             Get(sector_data, "sector_gross_margin", 3500)), 15)

\* a division by df_sector or margen_sector is reached with a zero divisor
puntuar_fortaleza_financiera_raises(fundamentals, sector_data) ==
    /\ ~(Falsy(fundamentals) \/ Falsy(sector_data))
    /\ \/ /\ sector_guard(Get(sector_data, "sector_debt_to_equity", 100))
          /\ Get(sector_data, "sector_debt_to_equity", 100) = 0
       \/ /\ sector_guard(Get(sector_data, "sector_gross_margin", 3500))
          /\ Get(sector_data, "sector_gross_margin", 3500) = 0

-----------------------------------------------------------------------------
(* scoring.py: technical block *)

\* "mm.get(k) and mm[k].get('precio_encima')"
precio_encima_de(mm, k) ==
    /\ ~Falsy(Get(mm, k, None))
    /\ Get(mm[k], "precio_encima", FALSE)

\* the weights of MM50 and MM200 exchanged
puntuar_medias_moviles_al_reves(ind) ==
    IF Falsy(ind) \/ "medias_moviles" \notin DOMAIN ind THEN 5
    ELSE LET mm == ind["medias_moviles"]
         IN  (IF precio_encima_de(mm, "mm50") THEN 5 ELSE 0)
             + (IF precio_encima_de(mm, "mm100") THEN 3 ELSE 0)
             + (IF precio_encima_de(mm, "mm200") THEN 2 ELSE 0)

puntuar_medias_moviles(ind) ==
    IF Falsy(ind) \/ "medias_moviles" \notin DOMAIN ind THEN 5
    ELSE LET mm == ind["medias_moviles"]
         IN  (IF precio_encima_de(mm, "mm50") THEN 2 ELSE 0)
             + (IF precio_encima_de(mm, "mm100") THEN 3 ELSE 0)
             + (IF precio_encima_de(mm, "mm200") THEN 5 ELSE 0)

puntos_rsi(valor) ==
    IF 3000 <= valor /\ valor < 4000 THEN 4
    ELSE IF valor < 3000 THEN 4
    ELSE IF 4000 <= valor /\ valor <= 6000 THEN 3
    ELSE IF 6000 < valor /\ valor <= 7000 THEN 2
    ELSE 1

puntos_bollinger(pos) ==
    IF pos = "Banda inferior" THEN 3
    ELSE IF pos = "Banda media" THEN 2
    ELSE 1

puntuar_osciladores(ind) ==
    IF Falsy(ind) THEN 5
    ELSE LET rsi == Get(ind, "rsi", None)
             macd == Get(ind, "macd", None)
             bollinger == Get(ind, "bollinger", None)
         IN  Min((IF ~Falsy(rsi) THEN puntos_rsi(Get(rsi, "valor", 5000)) ELSE 0)
                 + (IF ~Falsy(macd)
                    THEN (IF Get(macd, "es_alcista", FALSE) THEN 3 ELSE 1)
                    ELSE 0)
                 + (IF ~Falsy(bollinger)
                    THEN puntos_bollinger(Get(bollinger, "posicion", ""))
                    ELSE 0),
                 10)

puntuar_volumen(ind) ==
    IF Falsy(ind) \/ "volumen" \notin DOMAIN ind THEN 2
    ELSE LET variacion == Get(ind["volumen"], "variacion_pct", 0)
         IN  IF variacion > 5000 THEN 5
             ELSE IF variacion > 2000 THEN 4
             ELSE IF variacion > 0 THEN 3
             ELSE IF variacion > -2000 THEN 2
             ELSE 1

-----------------------------------------------------------------------------
(* scoring.py: context block *)

\* the level points with a point left to "Alto"
puntos_nivel_alto_uno(nivel) ==
    IF nivel = "Bajo" THEN 3
    ELSE IF nivel = "Medio" THEN 2
    ELSE IF nivel = "Alto" THEN 1
    ELSE 2

\* niveles.get(nivel, 2)
puntos_nivel(nivel) ==
    IF nivel = "Bajo" THEN 3
    ELSE IF nivel = "Medio" THEN 2
    ELSE IF nivel = "Alto" THEN 0
    ELSE 2

puntuar_contexto_beta_sin_tope(ind) ==
    IF Falsy(ind) \/ "riesgos" \notin DOMAIN ind THEN 4
    ELSE LET riesgos == ind["riesgos"]
         IN  puntos_nivel(Get(riesgos, "riesgo_corto_plazo", "Medio"))
             + puntos_nivel(Get(riesgos, "riesgo_medio_plazo", "Medio"))
             + puntos_nivel(Get(riesgos, "riesgo_largo_plazo", "Medio"))

puntuar_contexto_beta(ind) ==
    IF Falsy(ind) \/ "riesgos" \notin DOMAIN ind THEN 4
    ELSE LET riesgos == ind["riesgos"]
         IN  Min(puntos_nivel(Get(riesgos, "riesgo_corto_plazo", "Medio"))
                 + puntos_nivel(Get(riesgos, "riesgo_medio_plazo", "Medio"))
                 + puntos_nivel(Get(riesgos, "riesgo_largo_plazo", "Medio")),
                 8)

\* the bands with a trend of exactly -5 counted as the top band
puntuar_acciones_circulacion_tope(shares_data) ==
    IF Falsy(shares_data) THEN 3
    ELSE LET trend == Get(shares_data, "shares_trend_3y", 0)
         IN  IF trend <= -500 THEN 7
             ELSE IF trend < -200 THEN 5
             ELSE IF trend < 0 THEN 4
             ELSE IF trend = 0 THEN 3
             ELSE IF trend < 300 THEN 2
             ELSE IF trend < 700 THEN 1
             ELSE 0

puntuar_acciones_circulacion(shares_data) ==
    IF Falsy(shares_data) THEN 3
    ELSE LET trend == Get(shares_data, "shares_trend_3y", 0)
         IN  IF trend < -500 THEN 7
             ELSE IF trend < -200 THEN 5
             ELSE IF trend < 0 THEN 4
             ELSE IF trend = 0 THEN 3
             ELSE IF trend < 300 THEN 2
             ELSE IF trend < 700 THEN 1
             ELSE 0

-----------------------------------------------------------------------------
(* scoring.py: total score *)

\* "shares_data.get('shares_trend_3y', 0) if shares_data else 0"
trend_de(shares_data) ==
    IF Falsy(shares_data) THEN 0 ELSE Get(shares_data, "shares_trend_3y", 0)

SumaDesglose(d) ==
    d.precio_valoracion + d.dividendo_retribucion + d.crecimiento
    + d.fortaleza_financiera + d.medias_moviles + d.osciladores
    + d.volumen + d.contexto_beta + d.contexto_acciones

calcular_score(cd, ind) ==
    LET fundamentals == Get(cd, "fundamentals", EmptyDict)
        sector_data  == Get(cd, "sector", EmptyDict)
        dividends    == Get(cd, "dividends", EmptyDict)
        shares_data  == Get(cd, "shares_outstanding", EmptyDict)
        p_dividendo  == puntuar_dividendo(dividends, fundamentals)
        desglose ==
            [precio_valoracion     |-> puntuar_precio_valoracion(fundamentals, sector_data),
             dividendo_retribucion |-> IF trend_de(shares_data) < 0
                                       THEN Min(p_dividendo + 1, 15)
                                       ELSE p_dividendo,
             crecimiento           |-> puntuar_crecimiento(fundamentals, sector_data),
             fortaleza_financiera  |-> puntuar_fortaleza_financiera(fundamentals, sector_data),
             medias_moviles        |-> puntuar_medias_moviles(ind),
             osciladores           |-> puntuar_osciladores(ind),
             volumen               |-> puntuar_volumen(ind),
             contexto_beta         |-> puntuar_contexto_beta(ind),
             contexto_acciones     |-> puntuar_acciones_circulacion(shares_data)]
    IN  [score_total |-> Max(1, Min(100, SumaDesglose(desglose))),
         desglose    |-> desglose]

\* calcular_score divides inside two of its sub-scores only
calcular_score_raises(cd, ind) ==
    \/ puntuar_precio_valoracion_raises(Get(cd, "fundamentals", EmptyDict),
                                        Get(cd, "sector", EmptyDict))
    \/ puntuar_fortaleza_financiera_raises(Get(cd, "fundamentals", EmptyDict),
                                           Get(cd, "sector", EmptyDict))

-----------------------------------------------------------------------------
(* scoring.py: narrative *)

\* "d.get(k, {}).get(...)" raises AttributeError when d[k] is None
get_chain_raises(d, k) == Get(d, k, EmptyDict) = None

\* "fund.get(k, 0) if fund else 0"
campo(d, k) == IF Falsy(d) THEN 0 ELSE Get(d, k, 0)

\* "indicadores.get('rsi', {}).get('valor', 50) if indicadores else 50"
rsi_valor_de(ind) ==
    IF Falsy(ind) THEN 5000 ELSE Get(Get(ind, "rsi", EmptyDict), "valor", 5000)

\* "indicadores.get('zona_entrada', {}) if indicadores else {}"
zona_de(ind) == IF Falsy(ind) THEN EmptyDict ELSE Get(ind, "zona_entrada", EmptyDict)

\* the synthesis with a score of exactly 70 left in the middle tier
sintesis_sobre_70(score) ==
    IF score > 70 THEN "P6 alta calidad"
    ELSE IF score >= 50 THEN "P6 potencial interesante, entrada cautelosa"
    ELSE "P6 desafios significativos"

sintesis(score) ==
    IF score >= 70 THEN "P6 alta calidad"
    ELSE IF score >= 50 THEN "P6 potencial interesante, entrada cautelosa"
    ELSE "P6 desafios significativos"

generar_resumen_ejecutivo(cd, ind, score_data) ==
    LET fundamentals == Get(cd, "fundamentals", EmptyDict)
        sector_data  == Get(cd, "sector", EmptyDict)
        shares_data  == Get(cd, "shares_outstanding", EmptyDict)
        score        == Get(score_data, "score_total", 0)
        df_s         == campo(sector_data, "sector_debt_to_equity")
        buyback      == IF Falsy(fundamentals) THEN FALSE
                        ELSE Get(fundamentals, "has_buyback", FALSE)
        shares_out   == campo(shares_data, "shares_outstanding")
    IN  <<"P1 valoracion">>
        \o <<"P2 rentabilidad y crecimiento">>
        \o (IF df_s # 0 \/ buyback THEN <<"P3 estructura financiera">> ELSE <<>>)
        \o (IF shares_out # 0 THEN <<"P4 capital accionarial">> ELSE <<>>)
        \o (IF ~Falsy(ind) THEN <<"P5 analisis tecnico">> ELSE <<>>)
        \o <<sintesis(score)>>

\* the three chained lookups of the technical data
generar_resumen_ejecutivo_raises(cd, ind, score_data) ==
    /\ ~Falsy(ind)
    /\ \/ get_chain_raises(ind, "medias_moviles")
       \/ get_chain_raises(Get(ind, "medias_moviles", EmptyDict), "mm200")
       \/ get_chain_raises(ind, "rsi")
       \/ get_chain_raises(ind, "macd")

RiesgoFallback == "Incertidumbre macroeconomica general del sector"

hallazgos_riesgo(cd, ind) ==
    LET fund   == Get(cd, "fundamentals", EmptyDict)
        sector == Get(cd, "sector", EmptyDict)
        shares == Get(cd, "shares_outstanding", EmptyDict)
        perfil == Get(cd, "profile", EmptyDict)
        df     == campo(fund, "debt_to_equity")
        df_s   == campo(sector, "sector_debt_to_equity")
        per    == campo(fund, "pe_ratio")
        per_s  == campo(sector, "sector_pe")
        beta   == IF Falsy(perfil) THEN 100 ELSE Get(perfil, "beta", 100)
        trend  == campo(shares, "shares_trend_3y")
        rsi    == rsi_valor_de(ind)
        mg     == campo(fund, "gross_margin_5y_avg")
        mg_s   == campo(sector, "sector_gross_margin")
    IN  (IF df # 0 /\ df_s # 0 /\ df * 10 > df_s * 13
         THEN <<"Endeudamiento superior al sector">> ELSE <<>>)
        \o (IF per # 0 /\ per_s # 0 /\ per * 10 > per_s * 12
            THEN <<"PER por encima de la media sectorial">> ELSE <<>>)
        \o (IF beta # 0 /\ beta > 130 THEN <<"Beta elevada">> ELSE <<>>)
        \o (IF trend > 300 THEN <<"Aumento de acciones en circulacion">> ELSE <<>>)
        \o (IF rsi > 7000 THEN <<"RSI en zona de sobrecompra">> ELSE <<>>)
        \o (IF mg # 0 /\ mg_s # 0 /\ mg * 10 < mg_s * 8
            THEN <<"Margenes brutos por debajo del sector">> ELSE <<>>)
        \o (IF Get(zona_de(ind), "estado", "") = "Esperar retroceso"
            THEN <<"Precio actual por encima de la zona de entrada">> ELSE <<>>)

identificar_riesgos_sin_fallback(cd, ind) == hallazgos_riesgo(cd, ind)

identificar_riesgos(cd, ind) ==
    IF hallazgos_riesgo(cd, ind) = <<>> THEN <<RiesgoFallback>>
    ELSE hallazgos_riesgo(cd, ind)

identificar_riesgos_raises(cd, ind) ==
    /\ ~Falsy(ind)
    /\ get_chain_raises(ind, "rsi") \/ get_chain_raises(ind, "zona_entrada")

OportunidadFallback == "Posible expansion en mercados emergentes y nuevas lineas de negocio"

\* the findings with the entry zone counted as reached while waiting
hallazgos_oportunidad_en_espera(cd, ind) ==
    LET fund   == Get(cd, "fundamentals", EmptyDict)
        sector == Get(cd, "sector", EmptyDict)
        shares == Get(cd, "shares_outstanding", EmptyDict)
        div    == Get(cd, "dividends", EmptyDict)
        vs5    == campo(fund, "sales_growth_5y")
        trend  == campo(shares, "shares_trend_3y")
        mg     == campo(fund, "gross_margin_5y_avg")
        mg_s   == campo(sector, "sector_gross_margin")
        bpa5   == campo(fund, "eps_growth_5y")
        rsi    == rsi_valor_de(ind)
    IN  (IF vs5 > 1000 THEN <<"Crecimiento de ventas sostenido y fuerte">> ELSE <<>>)
        \o (IF ~Falsy(fund) /\ Get(fund, "has_buyback", FALSE)
            THEN <<"Programa de recompra de acciones activo">> ELSE <<>>)
        \o (IF trend < -200 THEN <<"Reduccion de acciones en circulacion">> ELSE <<>>)
        \o (IF mg # 0 /\ mg_s # 0 /\ mg * 10 > mg_s * 11
            THEN <<"Margenes brutos por encima del sector">> ELSE <<>>)
        \o (IF bpa5 > 1000 THEN <<"Crecimiento BPA fuerte">> ELSE <<>>)
        \o (IF rsi < 3500 THEN <<"RSI en zona de sobreventa">> ELSE <<>>)
        \o (IF Get(zona_de(ind), "estado", "") \in {"Zona de entrada activa",
                                                 "Esperar retroceso"}
            THEN <<"El precio actual se encuentra dentro de la zona de entrada">>
            ELSE <<>>)
        \o (IF ~Falsy(div) /\ Get(div, "dividend_growth_5y", 0) > 500
            THEN <<"Dividendo con crecimiento consistente">> ELSE <<>>)

hallazgos_oportunidad(cd, ind) ==
    LET fund   == Get(cd, "fundamentals", EmptyDict)
        sector == Get(cd, "sector", EmptyDict)
        shares == Get(cd, "shares_outstanding", EmptyDict)
        div    == Get(cd, "dividends", EmptyDict)
        vs5    == campo(fund, "sales_growth_5y")
        trend  == campo(shares, "shares_trend_3y")
        mg     == campo(fund, "gross_margin_5y_avg")
        mg_s   == campo(sector, "sector_gross_margin")
        bpa5   == campo(fund, "eps_growth_5y")
        rsi    == rsi_valor_de(ind)
    IN  (IF vs5 > 1000 THEN <<"Crecimiento de ventas sostenido y fuerte">> ELSE <<>>)
        \o (IF ~Falsy(fund) /\ Get(fund, "has_buyback", FALSE)
            THEN <<"Programa de recompra de acciones activo">> ELSE <<>>)
        \o (IF trend < -200 THEN <<"Reduccion de acciones en circulacion">> ELSE <<>>)
        \o (IF mg # 0 /\ mg_s # 0 /\ mg * 10 > mg_s * 11
            THEN <<"Margenes brutos por encima del sector">> ELSE <<>>)
        \o (IF bpa5 > 1000 THEN <<"Crecimiento BPA fuerte">> ELSE <<>>)
        \o (IF rsi < 3500 THEN <<"RSI en zona de sobreventa">> ELSE <<>>)
        \o (IF Get(zona_de(ind), "estado", "") = "Zona de entrada activa"
            THEN <<"El precio actual se encuentra dentro de la zona de entrada">>
            ELSE <<>>)
        \o (IF ~Falsy(div) /\ Get(div, "dividend_growth_5y", 0) > 500
            THEN <<"Dividendo con crecimiento consistente">> ELSE <<>>)

identificar_oportunidades(cd, ind) ==
    IF hallazgos_oportunidad(cd, ind) = <<>> THEN <<OportunidadFallback>>
    ELSE hallazgos_oportunidad(cd, ind)

identificar_oportunidades_raises(cd, ind) ==
    /\ ~Falsy(ind)
    /\ get_chain_raises(ind, "rsi") \/ get_chain_raises(ind, "zona_entrada")

generar_analisis_completo(cd, ind) ==
    [score             |-> calcular_score(cd, ind),
     resumen_ejecutivo |-> generar_resumen_ejecutivo(cd, ind, calcular_score(cd, ind)),
     riesgos           |-> identificar_riesgos(cd, ind),
     oportunidades     |-> identificar_oportunidades(cd, ind),
     zona_entrada      |-> zona_de(ind)]

\* the exception generar_analisis_completo ends with, "" when it returns
generar_analisis_completo_raises(cd, ind) ==
    IF calcular_score_raises(cd, ind) THEN "ZeroDivisionError"
    ELSE IF \/ generar_resumen_ejecutivo_raises(cd, ind, calcular_score(cd, ind))
            \/ identificar_riesgos_raises(cd, ind)
            \/ identificar_oportunidades_raises(cd, ind)
         THEN "AttributeError"
    ELSE ""

-----------------------------------------------------------------------------
(* The inputs.  Bounds of the model. *)

\* the longest history fetched
MaxBars == 201

\* the largest day-over-day drift of a close, in hundredths
MaxPaso == 30

\* the largest jump of the last close, in hundredths
MaxSalto == 300

BarCounts == {0, 29, 30, 49, 50, 99, 100, 199, 200, MaxBars}

\* a history of n bars: closes drifting by paso from base, with a zigzag of
\* amplitude zig, the last close moved by salto; volumes vol, the last one vfin
Historia(n, base, paso, zig, salto, vol, vfin) ==
    [i \in 1..n |->
        [close  |-> IF base = 0 THEN 0
                    ELSE base + paso * (i - 1) + zig * (i % 2)
                         + (IF i = n THEN salto ELSE 0),
         volume |-> IF i = n THEN vfin ELSE vol]]

Fundamentales(pe, pb, gm, vs, bpa, df, payout, buyback) ==
    [pe_ratio |-> pe, price_to_book |-> pb, gross_margin_5y_avg |-> gm,
     sales_growth_5y |-> vs, eps_growth_5y |-> bpa, debt_to_equity |-> df,
     payout_ratio |-> payout, has_buyback |-> buyback]

Sector(pe, pb, gm, df) ==
    [sector_pe |-> pe, sector_pb |-> pb, sector_gross_margin |-> gm,
     sector_debt_to_equity |-> df]

Dividendos(y, g3, g5) ==
    [dividend_yield_at_buy |-> y, dividend_growth_3y |-> g3,
     dividend_growth_5y |-> g5, pays_dividend |-> y > 0]

Acciones(n, trend) == [shares_outstanding |-> n, shares_trend_3y |-> trend]

Perfil(beta) == [name |-> "Apple Inc.", beta |-> beta]

Empresa(perfil, fund, sector, div, acciones) ==
    [profile |-> perfil, fundamentals |-> fund, sector |-> sector,
     dividends |-> div, shares_outstanding |-> acciones]

\* company_data_ejemplo of scoring.py
fundamentals_ejemplo == Fundamentales(2840, 720, 4310, 1120, 1380, 181, 1540, TRUE)

sector_ejemplo == Sector(2410, 580, 3860, 72)

dividends_ejemplo == Dividendos(182, 450, 520)

shares_ejemplo == Acciones(15400, -320)

company_data_ejemplo ==
    Empresa(Perfil(119), fundamentals_ejemplo, sector_ejemplo, dividends_ejemplo,
            shares_ejemplo)

\* a snapshot whose providers all failed: get_fundamentals, get_sector_data -> None
company_data_sin_datos == Empresa(Perfil(100), None, None, EmptyDict, EmptyDict)

\* indicadores_ejemplo of scoring.py
indicadores_ejemplo ==
    [precio_actual  |-> 22840,
     medias_moviles |-> [mm50  |-> [valor |-> 21500, precio_encima |-> TRUE],
                         mm100 |-> [valor |-> 20500, precio_encima |-> TRUE],
                         mm200 |-> [valor |-> 19500, precio_encima |-> TRUE]],
     rsi            |-> [valor |-> 6240, zona |-> "Zona neutra"],
     macd           |-> [valor_macd |-> 320, valor_senal |-> 180, es_alcista |-> TRUE],
     bollinger      |-> [banda_superior |-> 23500, banda_media |-> 22000,
                         banda_inferior |-> 20500, posicion |-> "Banda media"],
     volumen        |-> [volumen_actual |-> 8500, promedio_30d |-> 6500,
                         variacion_pct |-> 3080],
     zona_entrada   |-> [precio_actual |-> 22840, soporte_mm200 |-> 19500,
                         soporte_bollinger |-> 20500, zona_ideal_min |-> 19500,
                         zona_ideal_max |-> 20500, estado |-> "Esperar retroceso",
                         distancia_zona_pct |-> 1150],
     riesgos        |-> [riesgo_corto_plazo |-> "Medio", riesgo_medio_plazo |-> "Bajo",
                         riesgo_largo_plazo |-> "Bajo"]]

\* datos_ejemplo of indicators.py: 250 bars rising by 0.30 from 150.00,
\* volumes in thousands of shares
datos_ejemplo ==
    [i \in 1..250 |-> [close  |-> 15000 + 30 * (i - 1),
                       volume |-> 1000 + 5 * (i - 1)]]

-----------------------------------------------------------------------------
(* The histories and snapshots the pipeline is run on *)

Pasos == {-MaxPaso, 0, 3, MaxPaso}

Saltos == {-MaxSalto, 0, MaxSalto}

\* histories of every length of BarCounts, in every shape
HistoriasPorForma ==
    {Historia(n, 15000, paso, zig, salto, 1000, 1000) :
        n \in BarCounts, paso \in Pasos, zig \in {0, 40}, salto \in Saltos}
    \cup {Historia(n, 0, 0, 0, 0, 1000, 1000) : n \in BarCounts}

\* histories of every volume profile, the zero volume included
HistoriasPorVolumen ==
    {Historia(n, 15000, 3, 40, 0, vol[1], vol[2]) :
        n \in {30, 200},
        vol \in {<<0, 0>>, <<1000, 1000>>, <<1000, 1300>>, <<1000, 2000>>, <<1000, 500>>}}

Betas == {0, 100, 120, 140, 160, 190}

\* histories whose last close is 0 after closes of 10.00
HistoriasPrecioCero ==
    {Historia(n, 1000, 0, 0, -1000, 1000, 1000) : n \in BarCounts}

\* a history of n bars rising by 0.30 a bar, but for one fall of caida at bar k
HistoriaConCaida(n, k, caida) ==
    [i \in 1..n |->
        [close  |-> 15000 + 30 * (i - 1) - (IF i >= k THEN caida ELSE 0),
         volume |-> 1000]]

\* histories with a single down day, early, in the middle or at the end
HistoriasConCaida ==
    {HistoriaConCaida(n, k, 200) : n \in {30, 50, 200}, k \in {5, 12, 20, 28}}
    \cup {HistoriaConCaida(n, n - 2, 200) : n \in {30, 50, 200}}

\* histories around the 35 bars that give nine MACD values
HistoriasCortas ==
    {Historia(n, 15000, paso, 40, salto, 1000, 1000) :
        n \in {34, 35, 36}, paso \in Pasos, salto \in Saltos}

FetchedStates ==
    {[datos |-> h, cd |-> company_data_ejemplo] :
        h \in HistoriasPorForma \cup HistoriasPrecioCero \cup HistoriasConCaida
              \cup HistoriasCortas}
    \cup {[datos |-> h, cd |-> Empresa(Perfil(b), fundamentals_ejemplo, sector_ejemplo,
                                        dividends_ejemplo, shares_ejemplo)] :
            h \in HistoriasPorVolumen, b \in Betas}
    \cup {[datos |-> h, cd |-> company_data_sin_datos] : h \in HistoriasPorVolumen}
    \cup {[datos |-> datos_ejemplo,
            cd |-> Empresa(Perfil(120), fundamentals_ejemplo, sector_ejemplo,
                           dividends_ejemplo, shares_ejemplo)]}

\* the valuation and balance-sheet fields, against every kind of benchmark
SnapshotsValoracion ==
    {Empresa(Perfil(100),
             Fundamentales(pe, pb, gm, 300, 300, df, 4000, FALSE),
             sec, Dividendos(0, 0, 0), Acciones(0, 0)) :
        pe \in {0, 1600, 2000, 2410, 2840, 3500},
        pb \in {0, 400, 720},
        gm \in {0, 2500, 3800, 4310, 5200},
        df \in {-50, 0, 30, 60, 72, 90, 120, 181},
        sec \in {sector_ejemplo, Sector(0, 0, 0, 0), Sector(-100, -100, -100, -100),
                 [sector_pe |-> 2410, sector_pb |-> 580], None}}

\* the dividend fields and the share-count trend
SnapshotsDividendo ==
    {Empresa(Perfil(100),
             Fundamentales(2410, 580, 3860, 300, 300, 72, payout, buyback),
             sector_ejemplo, Dividendos(y, g3, g5), Acciones(15400, trend)) :
        y \in {0, 100, 182, 300, 450},
        g3 \in {0, 450, 700, 1200},
        g5 \in {-100, 200, 520, 900},
        payout \in {0, 1540, 2500, 4500, 7000, 9000},
        buyback \in BOOLEAN,
        trend \in {-600, -320, -100, 0, 200, 500, 800}}

\* share trends on and beside the edges of the bands
TendenciasLimite == {-501, -500, -201, -200, -1, 0, 1, 299, 300, 699, 700, 701}

SnapshotsAcciones ==
    {Empresa(Perfil(119), fundamentals_ejemplo, sector_ejemplo, dividends_ejemplo,
             Acciones(15400, trend)) : trend \in TendenciasLimite}

\* the growth fields
SnapshotsCrecimiento ==
    {Empresa(Perfil(beta),
             Fundamentales(2410, 580, 3860, vs, bpa, 72, 4000, FALSE),
             sector_ejemplo, div, Acciones(0, 0)) :
        vs \in {-800, -300, 0, 300, 800, 1120, 2500},
        bpa \in {-800, -300, 0, 500, 1000, 1380, 2000, 3000},
        beta \in {100, 140},
        div \in {EmptyDict, Dividendos(0, 0, 0)}}

\* the best and the worst snapshot, and the snapshot without data
SnapshotsExtremos ==
    {Empresa(Perfil(100), Fundamentales(1000, 300, 6000, 2500, 3000, 10, 4500, TRUE),
             sector_ejemplo, Dividendos(500, 1200, 900), Acciones(15400, -600)),
     Empresa(Perfil(200), Fundamentales(5000, 1500, 1000, -800, -800, 500, 0, FALSE),
             sector_ejemplo, Dividendos(0, 0, 0), Acciones(15400, 800)),
     company_data_sin_datos,
     company_data_ejemplo}

\* bundles as a caller of scoring.py may hand them in
SenalesMM == {None, [valor |-> 20000, precio_encima |-> TRUE],
              [valor |-> 24000, precio_encima |-> FALSE]}

Niveles == {"Bajo", "Medio", "Alto"}

BundlesMedias ==
    {[indicadores_ejemplo EXCEPT !.medias_moviles = [mm50 |-> a, mm100 |-> b, mm200 |-> c]] :
        a \in SenalesMM, b \in SenalesMM, c \in SenalesMM}

BundlesOsciladores ==
    {[indicadores_ejemplo EXCEPT !.rsi = r, !.macd.es_alcista = m,
                                 !.bollinger.posicion = pos, !.zona_entrada.estado = z] :
        r \in {None} \cup {[valor |-> v, zona |-> zona_rsi(v)] :
                             v \in {2500, 3200, 3800, 5000, 6240, 6500, 7500}},
        m \in BOOLEAN,
        pos \in {"Banda superior", "Banda media", "Banda inferior"},
        z \in {"Zona de entrada activa", "Esperar retroceso", "Datos insuficientes"}}

BundlesContexto ==
    {[indicadores_ejemplo EXCEPT !.volumen.variacion_pct = v,
                                 !.riesgos = [riesgo_corto_plazo |-> a,
                                              riesgo_medio_plazo |-> b,
                                              riesgo_largo_plazo |-> c]] :
        v \in {-4915, -1000, 0, 1500, 3080, 9355},
        a \in Niveles, b \in Niveles, c \in Niveles}

BundlesParciales ==
    {None, EmptyDict, indicadores_ejemplo,
     [precio_actual |-> 22840],
     [rsi |-> [valor |-> 5000, zona |-> "Zona neutra"],
      zona_entrada |-> [estado |-> "Datos insuficientes"]]}

Bundles == BundlesMedias \cup BundlesOsciladores \cup BundlesContexto \cup BundlesParciales

IndicatorStates ==
    {[ind |-> indicadores_ejemplo, cd |-> cd] :
        cd \in SnapshotsValoracion \cup SnapshotsDividendo \cup SnapshotsCrecimiento
               \cup SnapshotsAcciones}
    \cup {[ind |-> ind, cd |-> cd] : ind \in Bundles, cd \in SnapshotsExtremos}

-----------------------------------------------------------------------------
(* The pipeline of app.py: fetch, indicators, analysis *)

\* the snapshot has been fetched (app.py: get_all_company_data), or a caller
\* of scoring.py holds a snapshot and a bundle (scoring.py: __main__)
Init ==
    /\ CarteraSinUsar
    /\ BotSinUsar
    /\ secretos = EmptyDict
    /\ analisis = None
    /\ excepcion = ""
    /\ \/ \E f \in FetchedStates :
            /\ pc = "fetched"
            /\ company_data = f.cd
            /\ datos_historicos = f.datos
            /\ indicadores = None
       \/ \E s \in IndicatorStates :
            /\ pc = "indicators"
            /\ company_data = s.cd
            /\ datos_historicos = <<>>
            /\ indicadores = s.ind

\* company_data["technical_indicators"] = indicadores, after
\* "if not indicadores: indicadores = {}": the pipeline's own write into the
\* snapshot, between the two stages
adjuntar_indicadores(cd, ind) ==
    [k \in DOMAIN cd \cup {"technical_indicators"} |->
        IF k = "technical_indicators"
        THEN (IF Falsy(ind) THEN EmptyDict ELSE ind)
        ELSE cd[k]]

\* indicadores = indicators.calcular_todos_indicadores(historical, beta)
\* company_data["technical_indicators"] = indicadores
CalcularTodosIndicadores ==
    /\ pc = "fetched"
    /\ LET beta == Get(Get(company_data, "profile", EmptyDict), "beta", 100)
       IN  IF calcular_todos_indicadores_raises(datos_historicos, beta)
           THEN /\ pc' = "done"
                /\ excepcion' = "ZeroDivisionError"
                /\ indicadores' = None
                /\ company_data' = company_data
           ELSE /\ pc' = "indicators"
                /\ excepcion' = ""
                /\ indicadores' = calcular_todos_indicadores(datos_historicos, beta)
                /\ company_data' =
                     adjuntar_indicadores(company_data,
                         calcular_todos_indicadores(datos_historicos, beta))
    /\ UNCHANGED <<datos_historicos, analisis>>
    /\ UNCHANGED <<vars_cartera, vars_bot>>

\* an analysis that writes its score into the snapshot it was given
GenerarAnalisisCompleto_escribe ==
    /\ pc = "indicators"
    /\ pc' = "done"
    /\ LET ind == IF Falsy(indicadores) THEN EmptyDict ELSE indicadores
           exc == generar_analisis_completo_raises(company_data, ind)
       IN  /\ excepcion' = exc
           /\ analisis' = IF exc = "" THEN generar_analisis_completo(company_data, ind)
                          ELSE None
           /\ company_data' =
                [k \in DOMAIN company_data \cup {"score"} |->
                    IF k = "score" THEN exc ELSE company_data[k]]
    /\ UNCHANGED <<datos_historicos, indicadores>>
    /\ UNCHANGED <<vars_cartera, vars_bot>>

\* "if not indicadores: indicadores = {}"
\* analisis = scoring.generar_analisis_completo(company_data, indicadores)
GenerarAnalisisCompleto ==
    /\ pc = "indicators"
    /\ pc' = "done"
    /\ LET ind == IF Falsy(indicadores) THEN EmptyDict ELSE indicadores
           exc == generar_analisis_completo_raises(company_data, ind)
       IN  /\ excepcion' = exc
           /\ analisis' = IF exc = "" THEN generar_analisis_completo(company_data, ind)
                          ELSE None
    /\ UNCHANGED <<company_data, datos_historicos, indicadores>>
    /\ UNCHANGED <<vars_cartera, vars_bot>>

Next == CalcularTodosIndicadores \/ GenerarAnalisisCompleto

Spec == Init /\ [][Next]_vars

-----------------------------------------------------------------------------
(* app.py: the portfolio and its file *)

\* the latest reading of the clock
MaxReloj == 1

Tickers == {"AAPL", "KO"}

\* what the analysis form hands over: shares > 0 and buy_price > 0
Lotes ==
    {[nombre |-> "Apple Inc.", shares |-> 10, buy_price |-> 15000,
      current_price |-> 22840, score |-> 72, sector |-> "Technology"],
     [nombre |-> "Apple", shares |-> 25, buy_price |-> 21000,
      current_price |-> 23100, score |-> 64, sector |-> "Consumer Electronics"]}

\* the keys of a position, in the order añadir_a_cartera writes them
Columnas ==
    <<"ticker", "nombre", "shares", "buy_price", "current_price", "score", "sector",
      "fecha_compra", "fecha_actualizacion">>

\* df.to_excel of pd.DataFrame(cartera): a header and a row of cells per position
a_excel(c) ==
    [columnas |-> Columnas,
     filas    |-> [i \in 1..Len(c) |-> [j \in 1..Len(Columnas) |-> c[i][Columnas[j]]]]]

\* pd.read_excel(...).to_dict('records'): a dict per row, keyed by the header
de_excel(hoja) ==
    [i \in 1..Len(hoja.filas) |->
        [k \in {hoja.columnas[j] : j \in 1..Len(hoja.columnas)} |->
            hoja.filas[i][CHOOSE j \in 1..Len(hoja.columnas) : hoja.columnas[j] = k]]]

\* a file that pd.read_excel cannot read
Ilegible == [ilegible |-> TRUE]

\* how a write of the file can end
Escrituras == {"escrito", "sin permiso", "a medias"}

\* guardar_cartera_a_excel: the file and the value returned
guardar_cartera_a_excel(c, fichero, escritura) ==
    IF c = <<>> THEN [archivo |-> fichero, retorno |-> "None"]
    ELSE IF escritura = "escrito" THEN [archivo |-> a_excel(c), retorno |-> "True"]
    ELSE IF escritura = "sin permiso" THEN [archivo |-> fichero, retorno |-> "False"]
    ELSE [archivo |-> Ilegible, retorno |-> "False"]

\* next((p for p in cartera if p['ticker'] == ticker), None), as an index; 0 is None
existente(c, ticker) ==
    IF \E i \in 1..Len(c) : c[i].ticker = ticker
    THEN CHOOSE i \in 1..Len(c) :
            /\ c[i].ticker = ticker
            /\ \A j \in 1..(i - 1) : c[j].ticker # ticker
    ELSE 0

\* a portfolio that gets one more position whatever it holds
anadir_a_cartera_sin_buscar(c, ticker, lote, t) ==
    Append(c, [ticker |-> ticker, nombre |-> lote.nombre, shares |-> lote.shares,
               buy_price |-> lote.buy_price, current_price |-> lote.current_price,
               score |-> lote.score, sector |-> lote.sector,
               fecha_compra |-> t, fecha_actualizacion |-> t])

\* the list after añadir_a_cartera, before it is saved; t is datetime.now()
anadir_a_cartera(c, ticker, lote, t) ==
    IF existente(c, ticker) # 0
    THEN [c EXCEPT ![existente(c, ticker)] =
            [@ EXCEPT !.shares = lote.shares, !.buy_price = lote.buy_price,
                      !.current_price = lote.current_price, !.score = lote.score,
                      !.nombre = lote.nombre, !.sector = lote.sector,
                      !.fecha_actualizacion = t]]
    ELSE Append(c, [ticker |-> ticker, nombre |-> lote.nombre, shares |-> lote.shares,
                    buy_price |-> lote.buy_price, current_price |-> lote.current_price,
                    score |-> lote.score, sector |-> lote.sector,
                    fecha_compra |-> t, fecha_actualizacion |-> t])

\* [p for p in cartera if p['ticker'] != ticker]
eliminar_de_cartera(c, ticker) == SelectSeq(c, LAMBDA p : p.ticker # ticker)

\* añadir_a_cartera(ticker, ...) and its guardar_cartera_a_excel()
AnadirACartera ==
    \E ticker \in Tickers, lote \in Lotes, t \in ahora..MaxReloj, e \in Escrituras :
        LET nueva == anadir_a_cartera(cartera, ticker, lote, t)
            g     == guardar_cartera_a_excel(nueva, archivo, e)
        IN  /\ cartera' = nueva
            /\ ahora' = t
            /\ archivo' = g.archivo
            /\ guardado' = g.retorno
            /\ UNCHANGED <<vars_analisis, vars_bot>>

\* eliminar_de_cartera(ticker) and its guardar_cartera_a_excel()
EliminarDeCartera ==
    \E ticker \in Tickers, e \in Escrituras :
        LET nueva == eliminar_de_cartera(cartera, ticker)
            g     == guardar_cartera_a_excel(nueva, archivo, e)
        IN  /\ cartera' = nueva
            /\ archivo' = g.archivo
            /\ guardado' = g.retorno
            /\ UNCHANGED <<ahora, vars_analisis, vars_bot>>

\* cargar_cartera_desde_excel(): nothing happens without a file or with one
\* that cannot be read
CargarCarteraDesdeExcel ==
    /\ cartera' = IF archivo = None \/ archivo = Ilegible THEN cartera
                  ELSE de_excel(archivo)
    /\ UNCHANGED <<archivo, ahora, guardado, vars_analisis, vars_bot>>

InitCartera ==
    AnalisisSinHacer /\ CarteraSinUsar /\ BotSinUsar /\ secretos = EmptyDict

NextCartera == AnadirACartera \/ EliminarDeCartera \/ CargarCarteraDesdeExcel

SpecCartera == InitCartera /\ [][NextCartera]_vars

-----------------------------------------------------------------------------
(* telegram_bot.py: the bot and the portfolio monitor *)

\* the most positions of a monitored portfolio
MaxPosiciones == 12

\* st.secrets with and without each of its three keys
Secretos ==
    {[k \in claves |-> IF k = "SCORE_CHANGE_THRESHOLD" THEN 10 ELSE k] :
        claves \in SUBSET {"TELEGRAM_BOT_TOKEN", "TELEGRAM_CHAT_ID",
                           "SCORE_CHANGE_THRESHOLD"}}

\* TelegramBot.__init__: the attributes set before a missing key raises
TelegramBot(s) ==
    IF "TELEGRAM_BOT_TOKEN" \notin DOMAIN s THEN [activo |-> FALSE]
    ELSE IF "TELEGRAM_CHAT_ID" \notin DOMAIN s
    THEN [token |-> s["TELEGRAM_BOT_TOKEN"], activo |-> FALSE]
    ELSE [token |-> s["TELEGRAM_BOT_TOKEN"], chat_id |-> s["TELEGRAM_CHAT_ID"],
          base_url |-> "https://api.telegram.org/bot", activo |-> TRUE]

\* how requests.post can end: a status code, or an exception
Redes == {"200", "400", "500", "Timeout"}

Mensajes == {"Test de Conexion", "Resumen Diario de Cartera"}

\* a send that takes any answer of the server for a success
enviar_mensaje_sin_estado(b, mensaje, red) ==
    IF ~b.activo
    THEN [retorno |-> "False", peticiones |-> {}, respuesta |-> ""]
    ELSE [retorno     |-> IF red = "Timeout" THEN "False" ELSE "True",
          peticiones  |-> {[url |-> b.base_url, chat_id |-> b.chat_id, text |-> mensaje]},
          respuesta   |-> red]

\* TelegramBot.enviar_mensaje: what it returns, what it posted, how that ended
enviar_mensaje(b, mensaje, red) ==
    IF ~b.activo
    THEN [retorno |-> "False", peticiones |-> {}, respuesta |-> ""]
    ELSE [retorno     |-> IF red = "Timeout" THEN "False"
                          ELSE IF red = "200" THEN "True" ELSE "False",
          peticiones  |-> {[url |-> b.base_url, chat_id |-> b.chat_id, text |-> mensaje]},
          respuesta   |-> red]

\* an attribute of the request is read that __init__ never set
enviar_mensaje_raises(b) ==
    b.activo /\ ({"base_url", "chat_id"} \ DOMAIN b) # {}

\* a list that may be None instead
Lista(c) == [lista |-> c]

\* "not cartera_anterior": None and [] are false
SinCartera(anterior) == anterior = None \/ anterior.lista = <<>>

\* {p['ticker'] for p in lista}
tickers_de(lista) == {lista[i].ticker : i \in 1..Len(lista)}

\* {p['ticker']: p for p in cartera}: the last position of a ticker wins
dict_de(c) ==
    [t \in tickers_de(c) |->
        c[CHOOSE i \in 1..Len(c) :
            c[i].ticker = t /\ \A j \in (i + 1)..Len(c) : c[j].ticker # t]]

\* a position put into a list sorted by falling score, after its equals
RECURSIVE insertar(_, _)
insertar(ordenada, p) ==
    IF ordenada = <<>> THEN <<p>>
    ELSE IF ordenada[1].score >= p.score
    THEN <<ordenada[1]>> \o insertar(Tail(ordenada), p)
    ELSE <<p>> \o ordenada

\* sorted(cartera, key=lambda x: x['score'], reverse=True): stable
RECURSIVE sorted_por_score(_)
sorted_por_score(c) ==
    IF c = <<>> THEN <<>>
    ELSE insertar(sorted_por_score(SubSeq(c, 1, Len(c) - 1)), c[Len(c)])

\* sorted(...)[:10]
top10(c) == SubSeq(sorted_por_score(c), 1, Min(10, Len(c)))

\* top10_anterior: [] without a previous portfolio
top10_anterior(anterior) ==
    IF SinCartera(anterior) THEN <<>> ELSE top10(anterior.lista)

\* the score changes that are notified whatever the threshold
cambios_de_score_sin_umbral(actual, anterior, threshold) ==
    IF SinCartera(anterior) THEN {}
    ELSE {[tipo |-> "cambio_score", ticker |-> t,
           score_anterior |-> dict_de(anterior.lista)[t].score,
           score_nuevo |-> dict_de(actual)[t].score] :
            t \in tickers_de(actual) \cap tickers_de(anterior.lista)}

\* the notificar_cambio_score calls of the monitor
cambios_de_score(actual, anterior, threshold) ==
    IF SinCartera(anterior) THEN {}
    ELSE {[tipo |-> "cambio_score", ticker |-> t,
           score_anterior |-> dict_de(anterior.lista)[t].score,
           score_nuevo |-> dict_de(actual)[t].score] :
            t \in {u \in tickers_de(actual) \cap tickers_de(anterior.lista) :
                     Abs(dict_de(actual)[u].score - dict_de(anterior.lista)[u].score)
                        >= threshold}}

\* the notificar_entrada_top10 calls of the monitor
entradas_top10(actual, anterior) ==
    {[tipo |-> "entrada_top10", ticker |-> t,
      posicion |-> CHOOSE i \in 1..Len(top10(actual)) :
                      /\ top10(actual)[i].ticker = t
                      /\ \A j \in 1..(i - 1) : top10(actual)[j].ticker # t,
      score |-> dict_de(actual)[t].score] :
        t \in tickers_de(top10(actual)) \ tickers_de(top10_anterior(anterior))}

\* exits notified for the tickers that left the portfolio as well
salidas_top10_de_todas(actual, anterior) ==
    {[tipo |-> "salida_top10", ticker |-> t,
      score |-> IF t \in tickers_de(actual) THEN dict_de(actual)[t].score ELSE 0] :
        t \in tickers_de(top10_anterior(anterior)) \ tickers_de(top10(actual))}

\* the notificar_salida_top10 calls of the monitor
salidas_top10(actual, anterior) ==
    {[tipo |-> "salida_top10", ticker |-> t, score |-> dict_de(actual)[t].score] :
        t \in {u \in tickers_de(top10_anterior(anterior)) \ tickers_de(top10(actual)) :
                 u \in tickers_de(actual)}}

\* monitorear_cambios_cartera: the notifications it hands to enviar_mensaje
monitorear_cambios_cartera(actual, anterior, b, s) ==
    IF ~b.activo THEN {}
    ELSE cambios_de_score(actual, anterior, Get(s, "SCORE_CHANGE_THRESHOLD", 5))
         \cup entradas_top10(actual, anterior)
         \cup salidas_top10(actual, anterior)

\* the portfolios monitored: ladders of scores, one score moved, a position
\* sold, the list turned round
Nombres ==
    <<"AAPL", "MSFT", "KO", "JNJ", "PG", "V", "MA", "NVDA", "XOM", "PEP", "COST",
      "ABBV", "MRK", "ADBE", "CRM", "TXN">>

Escalera(n) == [i \in 1..n |-> [ticker |-> Nombres[i], score |-> 95 - 5 * i]]

ConCambio(c, i, d) == [c EXCEPT ![i].score = @ + d]

SinPosicion(c, k) == [i \in 1..(Len(c) - 1) |-> IF i < k THEN c[i] ELSE c[i + 1]]

AlReves(c) == [i \in 1..Len(c) |-> c[Len(c) + 1 - i]]

Tamanos == {10, 11, MaxPosiciones}

Cambios == {-20, -4, 0, 5, 20}

Carteras ==
    UNION {{ConCambio(Escalera(n), i, d) : i \in {1, 10, n}, d \in Cambios} :
              n \in Tamanos}
    \cup {SinPosicion(Escalera(MaxPosiciones), 3), AlReves(Escalera(MaxPosiciones)),
          <<>>}

\* bot = TelegramBot()
CrearBot ==
    /\ pc_bot = "nuevo"
    /\ pc_bot' = "listo"
    /\ bot' = TelegramBot(secretos)
    /\ UNCHANGED <<secretos, cartera_actual, cartera_anterior, peticiones, respuesta,
                   retorno, vars_analisis, vars_cartera>>

\* bot.enviar_mensaje(mensaje)
EnviarMensaje ==
    /\ pc_bot = "listo"
    /\ pc_bot' = "enviado"
    /\ \E mensaje \in Mensajes, red \in Redes :
          IF enviar_mensaje_raises(bot)
          THEN /\ retorno' = "AttributeError"
               /\ UNCHANGED <<peticiones, respuesta>>
          ELSE /\ retorno' = enviar_mensaje(bot, mensaje, red).retorno
               /\ peticiones' = enviar_mensaje(bot, mensaje, red).peticiones
               /\ respuesta' = enviar_mensaje(bot, mensaje, red).respuesta
    /\ UNCHANGED <<secretos, bot, cartera_actual, cartera_anterior, vars_analisis,
                   vars_cartera>>

\* monitorear_cambios_cartera(cartera_actual, cartera_anterior, bot)
MonitorearCambiosCartera ==
    /\ pc_bot = "listo"
    /\ pc_bot' = "monitoreado"
    /\ \E actual \in Carteras, anterior \in {Lista(c) : c \in Carteras} \cup {None} :
          /\ cartera_actual' = actual
          /\ cartera_anterior' = anterior
          /\ peticiones' = monitorear_cambios_cartera(actual, anterior, bot, secretos)
    /\ UNCHANGED <<secretos, bot, respuesta, retorno, vars_analisis, vars_cartera>>

InitBot ==
    /\ AnalisisSinHacer /\ CarteraSinUsar /\ BotSinUsar
    /\ secretos \in Secretos

NextBot == CrearBot \/ EnviarMensaje \/ MonitorearCambiosCartera

SpecBot == InitBot /\ [][NextBot]_vars

-----------------------------------------------------------------------------
(* Properties *)

PartesDelAnalisis ==
    {"score", "resumen_ejecutivo", "riesgos", "oportunidades", "zona_entrada"}

\* C1: for every history of at least 30 bars, the 30 to 199 bars without an
\* MM200 included, the engine followed by generar_analisis_completo ends
\* without an exception and returns the score, the executive summary, the
\* risks, the opportunities and the entry zone.
C1_AnalisisCompletoSinExcepcion ==
    pc = "done" /\ Len(datos_historicos) >= 30
        => excepcion = "" /\ DOMAIN analisis = PartesDelAnalisis

\* C2: on a history shorter than 30 bars, the empty one included, the engine
\* returns None without an exception and the analysis built from it has its
\* score_total in 1..100; score_total is in 1..100 for every combination of
\* snapshot and bundle.
C2_ScoreEnRango ==
    /\ [][CalcularTodosIndicadores /\ Len(datos_historicos) < 30
            => indicadores' = None /\ excepcion' = "" /\ pc' = "indicators"]_vars
    /\ [](pc = "done" /\ indicadores = None
            => excepcion = "" /\ analisis.score.score_total \in 1..100)
    /\ [](calcular_score(company_data, indicadores).score_total \in 1..100)
    /\ [](pc = "done" /\ excepcion = "" => analisis.score.score_total \in 1..100)

C2_Witness ==
    /\ pc = "done"
    /\ Len(datos_historicos) = 29
    /\ indicadores = None
    /\ excepcion = ""
    /\ analisis.score.score_total \in 1..100

\* C3: each of the nine entries of the breakdown lies between 0 and its cap
\* (15, 15, 15, 15, 10, 10, 5, 8, 7) and score_total is the sum of the nine
\* entries clamped to 1..100.
C3_DesgloseAcotado ==
    LET s == calcular_score(company_data, indicadores)
        d == s.desglose
        suma == d.precio_valoracion + d.dividendo_retribucion + d.crecimiento
                + d.fortaleza_financiera + d.medias_moviles + d.osciladores
                + d.volumen + d.contexto_beta + d.contexto_acciones
    IN  /\ d.precio_valoracion \in 0..15
        /\ d.dividendo_retribucion \in 0..15
        /\ d.crecimiento \in 0..15
        /\ d.fortaleza_financiera \in 0..15
        /\ d.medias_moviles \in 0..10
        /\ d.osciladores \in 0..10
        /\ d.volumen \in 0..5
        /\ d.contexto_beta \in 0..8
        /\ d.contexto_acciones \in 0..7
        /\ s.score_total = (IF suma < 1 THEN 1 ELSE IF suma > 100 THEN 100 ELSE suma)
        /\ pc = "done" /\ excepcion = "" => analisis.score = s

\* the three risk levels are "Bajo", where the cap of 8 cuts a sum of 9
C3_Witness ==
    /\ pc = "done"
    /\ excepcion = ""
    /\ "riesgos" \in DOMAIN indicadores
    /\ \A k \in {"riesgo_corto_plazo", "riesgo_medio_plazo", "riesgo_largo_plazo"} :
            indicadores.riesgos[k] = "Bajo"
    /\ analisis.score.desglose.contexto_beta = 8

\* C4: the dividend sub-score is the yield points plus the growth points plus
\* the payout points plus the buyback bonus, plus 1 if shares_trend_3y < 0 and
\* plus nothing for the share count otherwise, capped at 15.
C4_DividendoSinPuntoFijo ==
    pc = "done" /\ excepcion = "" /\ ~Falsy(company_data.dividends)
        => LET div  == company_data.dividends
               fund == company_data.fundamentals
               suma == puntos_yield(div.dividend_yield_at_buy)
                       + puntos_crecimiento_dividendo(div.dividend_growth_3y,
                                                      div.dividend_growth_5y)
                       + puntos_payout(campo(fund, "payout_ratio"))
                       + puntos_buyback(fund)
                       + (IF trend_de(company_data.shares_outstanding) < 0 THEN 1 ELSE 0)
           IN  analisis.score.desglose.dividendo_retribucion = Min(suma, 15)

\* the entries of a list other than its fallback
Nombrados(lista, fallback) == {i \in 1..Len(lista) : lista[i] # fallback}

\* C5: the list of risks and the list of opportunities are never empty; the
\* fallback finding is in a list exactly when no named condition triggers,
\* and it is then the only entry.
C5_ListasNoVacias ==
    pc = "done" /\ excepcion = ""
        => LET r == analisis.riesgos
               o == analisis.oportunidades
           IN  /\ r # <<>>
               /\ o # <<>>
               /\ (hallazgos_riesgo(company_data, indicadores) = <<>>)
                    <=> (\E i \in 1..Len(r) : r[i] = RiesgoFallback)
               /\ (hallazgos_oportunidad(company_data, indicadores) = <<>>)
                    <=> (\E i \in 1..Len(o) : o[i] = OportunidadFallback)
               /\ (\E i \in 1..Len(r) : r[i] = RiesgoFallback) => r = <<RiesgoFallback>>
               /\ (\E i \in 1..Len(o) : o[i] = OportunidadFallback)
                    => o = <<OportunidadFallback>>
               /\ Nombrados(r, RiesgoFallback) # {}
                    => r = hallazgos_riesgo(company_data, indicadores)
               /\ Nombrados(o, OportunidadFallback) # {}
                    => o = hallazgos_oportunidad(company_data, indicadores)

\* no risk is found and the fallback stands alone, next to named opportunities
C5_Witness ==
    /\ pc = "done"
    /\ excepcion = ""
    /\ analisis.riesgos = <<RiesgoFallback>>
    /\ Nombrados(analisis.oportunidades, OportunidadFallback) # {}

\* the values a growth field, the yield and the debt ratio are moved to
ValoresCrecimiento ==
    {-800, -500, -499, 0, 1, 500, 501, 800, 801, 1000, 1001, 1500, 1501, 2000, 2001,
     2500, 2501}

ValoresYield == {0, 1, 149, 150, 249, 250, 399, 400, 450}

ValoresDeuda == {-50, 0, 30, 36, 57, 58, 72, 90, 93, 94, 129, 130, 181}

ValoresDeudaSector == {50, 72, 100}

TotalCon(cd) == calcular_score(cd, indicadores).score_total

\* C6: with every other input fixed, score_total does not decrease when
\* sales_growth_5y, eps_growth_5y or dividend_yield_at_buy grows, and does not
\* increase when the ratio debt_to_equity / sector_debt_to_equity grows.
C6_Monotonia ==
    pc = "done" /\ excepcion = ""
        => LET cd    == company_data
               total == analisis.score.score_total
           IN  /\ ~Falsy(cd.fundamentals)
                    => \A v \in ValoresCrecimiento :
                         /\ v >= cd.fundamentals.sales_growth_5y
                              => TotalCon([cd EXCEPT !.fundamentals.sales_growth_5y = v])
                                   >= total
                         /\ v <= cd.fundamentals.sales_growth_5y
                              => TotalCon([cd EXCEPT !.fundamentals.sales_growth_5y = v])
                                   <= total
                         /\ v >= cd.fundamentals.eps_growth_5y
                              => TotalCon([cd EXCEPT !.fundamentals.eps_growth_5y = v])
                                   >= total
                         /\ v <= cd.fundamentals.eps_growth_5y
                              => TotalCon([cd EXCEPT !.fundamentals.eps_growth_5y = v])
                                   <= total
               /\ ~Falsy(cd.dividends)
                    => \A y \in ValoresYield :
                         /\ y >= cd.dividends.dividend_yield_at_buy
                              => TotalCon([cd EXCEPT !.dividends.dividend_yield_at_buy = y])
                                   >= total
                         /\ y <= cd.dividends.dividend_yield_at_buy
                              => TotalCon([cd EXCEPT !.dividends.dividend_yield_at_buy = y])
                                   <= total
               /\ (~Falsy(cd.fundamentals) /\ ~Falsy(cd.sector)
                   /\ Get(cd.sector, "sector_debt_to_equity", 0) > 0)
                    => \A d \in ValoresDeuda, s \in ValoresDeudaSector :
                         LET otro == [cd EXCEPT !.fundamentals.debt_to_equity = d,
                                                !.sector.sector_debt_to_equity = s]
                             d0   == cd.fundamentals.debt_to_equity
                             s0   == cd.sector.sector_debt_to_equity
                         IN  /\ d * s0 >= d0 * s => TotalCon(otro) <= total
                             /\ d * s0 <= d0 * s => TotalCon(otro) >= total

\* a larger sales growth, a larger yield and a smaller debt each raise the total
C6_Witness ==
    /\ pc = "done"
    /\ excepcion = ""
    /\ ~Falsy(company_data.fundamentals)
    /\ ~Falsy(company_data.dividends)
    /\ ~Falsy(company_data.sector)
    /\ company_data.fundamentals.sales_growth_5y = 300
    /\ TotalCon([company_data EXCEPT !.fundamentals.sales_growth_5y = 2001])
         > analisis.score.score_total
    /\ TotalCon([company_data EXCEPT !.fundamentals.eps_growth_5y = 2501])
         > analisis.score.score_total
    /\ TotalCon([company_data EXCEPT !.dividends.dividend_yield_at_buy = 450])
         > analisis.score.score_total
    /\ TotalCon([company_data EXCEPT !.fundamentals.debt_to_equity = 181])
         < analisis.score.score_total

\* C7: a numeric input equal to 0 contributes its component's neutral points,
\* as when the data is absent: debt_to_equity = 0 and gross_margin_5y_avg = 0
\* give the 4 + 3 of puntuar_fortaleza_financiera, pe_ratio = 0 and
\* price_to_book = 0 give the 4 + 3 of puntuar_precio_valoracion.
C7_CeroEsNeutral ==
    pc = "done" /\ excepcion = ""
    /\ ~Falsy(company_data.fundamentals) /\ ~Falsy(company_data.sector)
        => LET fund == company_data.fundamentals
               d    == analisis.score.desglose
           IN  /\ fund.debt_to_equity = 0 /\ fund.gross_margin_5y_avg = 0
                    => d.fortaleza_financiera = 4 + 3
               /\ fund.pe_ratio = 0 /\ fund.price_to_book = 0
                    => d.precio_valoracion = 4 + 3

\* no close of the history is below the close before it
SinBajadas(datos) ==
    \A i \in 1..(Len(datos) - 1) : datos[i + 1]["close"] >= datos[i]["close"]

\* C8: no ratio or percentage divides by zero: with a sector benchmark of 0
\* the ratio comparison gives its neutral 4 or 3 points, with a 30-day mean
\* volume of 0 the variation is 0, with an average loss of 0 the RSI is 100,
\* with a current price of 0 the distance to the zone is 0, and no
\* ZeroDivisionError is raised.
C8_SinDivisionPorCero ==
    /\ excepcion # "ZeroDivisionError"
    /\ pc = "done" /\ excepcion = ""
       /\ ~Falsy(company_data.fundamentals) /\ ~Falsy(company_data.sector)
         => LET fund == company_data.fundamentals
                sec  == company_data.sector
                d    == analisis.score.desglose
            IN  /\ Get(sec, "sector_pe", 0) = 0 /\ Get(sec, "sector_pb", 0) = 0
                     => d.precio_valoracion = 4 + 3
                /\ Get(sec, "sector_pe", 0) = 0 /\ Get(sec, "sector_pb", 0) # 0
                     => d.precio_valoracion
                          = 4 + puntos_pb(fund.price_to_book, sec.sector_pb)
                /\ Get(sec, "sector_debt_to_equity", 100) = 0
                   /\ Get(sec, "sector_gross_margin", 3500) = 0
                     => d.fortaleza_financiera = 4 + 3
    /\ pc # "fetched" /\ Len(datos_historicos) >= 30 /\ excepcion # "ZeroDivisionError"
         => LET n == Len(datos_historicos)
            IN  /\ indicadores # None
                /\ indicadores.volumen.promedio_30d = 0
                     => indicadores.volumen.variacion_pct = 0
                /\ SinBajadas(datos_historicos) => indicadores.rsi.valor = 10000
                /\ datos_historicos[n]["close"] = 0
                     => indicadores.zona_entrada.distancia_zona_pct = 0

\* a history without volume and without a falling close, analysed against a
\* sector whose benchmarks are all present
C8_Witness ==
    /\ pc = "done"
    /\ excepcion = ""
    /\ Len(datos_historicos) >= 30
    /\ indicadores.volumen.promedio_30d = 0
    /\ indicadores.volumen.variacion_pct = 0
    /\ analisis.score.desglose.volumen = 2

\* C9: when the bundle exists and a moving average is unavailable, the
\* moving-average sub-score gives that average a neutral default: the
\* sub-score is not the one of the same bundle with the price below that
\* average.
C9_MediaNoDisponibleNeutral ==
    pc # "fetched" /\ Len(datos_historicos) >= 30 /\ ~Falsy(indicadores)
        => \A k \in {"mm50", "mm100", "mm200"} :
             indicadores.medias_moviles[k] = None
                => puntuar_medias_moviles(indicadores)
                     # puntuar_medias_moviles(
                         [indicadores EXCEPT !.medias_moviles[k] =
                            [valor |-> indicadores.precio_actual + 1,
                             precio_encima |-> FALSE]])

NombreMM(periodo) ==
    IF periodo = 50 THEN "mm50" ELSE IF periodo = 100 THEN "mm100" ELSE "mm200"

\* the sum of the last periodo closes of the history
SumaUltimos(periodo) ==
    Suma(cierres(datos_historicos), Len(datos_historicos) - periodo + 1,
         Len(datos_historicos))

UltimoCierre == datos_historicos[Len(datos_historicos)]["close"]

\* C10 (as stated): MM50, MM100 and MM200 are defined only with at least 50,
\* 100 and 200 bars; a defined value is the arithmetic mean of the last
\* period closes and price_above is true exactly when the last close is
\* greater than that value.
C10_MediaExacta ==
    pc # "fetched" /\ Len(datos_historicos) >= 30 /\ indicadores # None
        => \A periodo \in {50, 100, 200} :
             LET m == indicadores.medias_moviles[NombreMM(periodo)]
             IN  m # None
                    => /\ Len(datos_historicos) >= periodo
                       /\ m.valor * periodo = SumaUltimos(periodo)
                       /\ m.precio_encima = (UltimoCierre > m.valor)

\* C10 (amended): MM50, MM100 and MM200 are defined only with at least 50, 100
\* and 200 bars, and then whenever the rounded mean is not 0; a defined value
\* is the arithmetic mean of the last period closes rounded to two decimals
\* and price_above is true exactly when the last close is greater than that
\* rounded value.
C10_MediaRedondeada ==
    pc # "fetched" /\ Len(datos_historicos) >= 30 /\ indicadores # None
        => \A periodo \in {50, 100, 200} :
             LET m == indicadores.medias_moviles[NombreMM(periodo)]
             IN  /\ m # None
                    => /\ Len(datos_historicos) >= periodo
                       /\ m.valor = RoundDiv(SumaUltimos(periodo), periodo)
                       /\ m.precio_encima = (UltimoCierre > m.valor)
                 /\ Len(datos_historicos) >= periodo
                    /\ RoundDiv(SumaUltimos(periodo), periodo) # 0
                    => m # None

\* 199 bars: MM100 is defined, is not the exact mean, and MM200 is not defined
C10_Witness ==
    /\ pc # "fetched"
    /\ Len(datos_historicos) = 199
    /\ indicadores # None
    /\ indicadores.medias_moviles.mm200 = None
    /\ indicadores.medias_moviles.mm100 # None
    /\ indicadores.medias_moviles.mm100.valor * 100 # SumaUltimos(100)
    /\ indicadores.medias_moviles.mm100.precio_encima

\* C11: calcular_rsi returns a value between 0 and 100, and it returns
\* exactly 100 if and only if no close of the history is below the close
\* before it.
C11_RsiCienSiiSinPerdidas ==
    pc # "fetched" /\ Len(datos_historicos) >= 30 /\ indicadores # None
        => /\ indicadores.rsi.valor \in 0..10000
           /\ indicadores.rsi.valor = 10000 <=> SinBajadas(datos_historicos)

\* the computation the RSI is specified by: the averages are seeded with the
\* mean of the FIRST periodo changes, then smoothed once for each later change
rsi_de_referencia(precios_cierre, periodo) ==
    LET semilla == [s |-> DivPositiva(1000 * SumaSubidas(precios_cierre, 1, periodo),
                                      periodo),
                    b |-> DivPositiva(1000 * SumaBajadas(precios_cierre, 1, periodo),
                                      periodo)]
        avg == SuavizarRsi(precios_cierre, periodo, periodo + 1,
                           Len(precios_cierre) - 1, semilla)
    IN  IF avg.b = 0 THEN 10000 ELSE rsi_de_promedios(avg.s, avg.b)

\* C12: calcular_rsi seeds the average gain and the average loss with the
\* mean of the first period changes and applies Wilder's smoothing once for
\* each later change, in order: its result is the one of that reference
\* computation.
C12_RsiComoReferencia ==
    pc # "fetched" /\ Len(datos_historicos) >= 30 /\ indicadores # None
        => indicadores.rsi.valor = rsi_de_referencia(cierres(datos_historicos), 14)

\* the three moving averages of the bundle are defined, with the price above
MediasDefinidasYPrecioEncima ==
    \A k \in {"mm50", "mm100", "mm200"} :
        /\ indicadores.medias_moviles[k] # None
        /\ indicadores.medias_moviles[k].precio_encima

\* C13 (as stated): for the 250 bars with close = 150 + 0.3 * i and beta 1.2,
\* MM50, MM100 and MM200 are defined with the price above, the MACD is
\* reported bullish and the RSI is above 50.
C13_EjemploAlcista ==
    pc # "fetched" /\ datos_historicos = datos_ejemplo
        => /\ indicadores # None
           /\ MediasDefinidasYPrecioEncima
           /\ indicadores.macd.es_alcista
           /\ indicadores.rsi.valor > 5000

\* C13 (amended): for the 250 bars with close = 150 + 0.3 * i and beta 1.2,
\* MM50, MM100 and MM200 are defined with the price above and the RSI is 100;
\* the MACD line is positive (the fast EMA is above the slow one) but equal
\* to its signal line, so the MACD is not reported bullish.
C13_EjemploLineal ==
    pc # "fetched" /\ datos_historicos = datos_ejemplo
        => /\ indicadores # None
           /\ MediasDefinidasYPrecioEncima
           /\ indicadores.macd.valor_macd > 0
           /\ indicadores.macd.valor_macd = indicadores.macd.valor_senal
           /\ ~indicadores.macd.es_alcista
           /\ indicadores.rsi.valor = 10000

\* the example has been analysed, with a MACD line of 2.10
C13_Witness ==
    /\ pc = "done"
    /\ excepcion = ""
    /\ datos_historicos = datos_ejemplo
    /\ company_data.profile.beta = 120
    /\ indicadores.precio_actual = 22470
    /\ indicadores.macd.valor_macd = 210

CierresPositivos == \A i \in 1..Len(datos_historicos) : datos_historicos[i]["close"] > 0

C15_BandasOrdenadas ==
    pc # "fetched" /\ Len(datos_historicos) >= 30 /\ indicadores # None
        => LET b == indicadores.bollinger
           IN  /\ b # None
               /\ b.banda_inferior <= b.banda_media
               /\ b.banda_media <= b.banda_superior
               /\ b.posicion = "Banda superior" <=> UltimoCierre > b.banda_superior
               /\ b.posicion = "Banda inferior" <=> UltimoCierre < b.banda_inferior
               /\ b.posicion = "Banda media"
                    <=> (b.banda_inferior <= UltimoCierre
                         /\ UltimoCierre <= b.banda_superior)

\* the last close has jumped above an upper band that is above the mean
C15_Witness ==
    /\ pc # "fetched"
    /\ Len(datos_historicos) >= 30
    /\ indicadores # None
    /\ indicadores.bollinger.posicion = "Banda superior"
    /\ indicadores.bollinger.banda_inferior < indicadores.bollinger.banda_media
    /\ indicadores.bollinger.banda_media < indicadores.bollinger.banda_superior

\* C16 (as stated): the zone is [min(MM200, lower band), max(MM200, lower
\* band)]; the state is "Zona de entrada activa" exactly when the price is at
\* most the zone's maximum and "Esperar retroceso" otherwise; the distance
\* is 0 when active and (price - zone max) / price * 100 when not; the state
\* is "Datos insuficientes" exactly when MM200 (fewer than 200 bars) or
\* Bollinger is undefined.
C16_DistanciaExacta ==
    pc # "fetched" /\ Len(datos_historicos) >= 30 /\ indicadores # None
        => LET z == indicadores.zona_entrada
               b == indicadores.bollinger
           IN  /\ z.estado = "Datos insuficientes"
                    <=> (Len(datos_historicos) < 200 \/ b = None)
               /\ z.estado # "Datos insuficientes"
                    => /\ z.zona_ideal_min = Min(z.soporte_mm200, b.banda_inferior)
                       /\ z.zona_ideal_max = Max(z.soporte_mm200, b.banda_inferior)
                       /\ z.zona_ideal_min <= z.zona_ideal_max
                       /\ z.estado = "Zona de entrada activa"
                            <=> UltimoCierre <= z.zona_ideal_max
                       /\ z.estado = "Esperar retroceso"
                            <=> UltimoCierre > z.zona_ideal_max
                       /\ z.estado = "Zona de entrada activa"
                            => z.distancia_zona_pct = 0
                       /\ z.estado = "Esperar retroceso"
                            => z.distancia_zona_pct * UltimoCierre
                                 = 10000 * (UltimoCierre - z.zona_ideal_max)

\* C16 (amended): the zone is [min(MM200, lower band), max(MM200, lower
\* band)]; the state is "Zona de entrada activa" exactly when the price is at
\* most the zone's maximum and "Esperar retroceso" otherwise; the distance
\* is 0 when active and (price - zone max) / price * 100 rounded to two
\* decimals when not; the state is "Datos insuficientes", with a zone of
\* [0, 0] and a distance of 0, exactly when MM200 is undefined or 0, or
\* Bollinger is undefined.
C16_ZonaDeEntrada ==
    pc # "fetched" /\ Len(datos_historicos) >= 30 /\ indicadores # None
        => LET z == indicadores.zona_entrada
               b == indicadores.bollinger
               sin_mm200 == \/ Len(datos_historicos) < 200
                            \/ RoundDiv(SumaUltimos(200), 200) = 0
           IN  /\ z.estado = "Datos insuficientes" <=> (sin_mm200 \/ b = None)
               /\ z.estado = "Datos insuficientes"
                    => /\ z.zona_ideal_min = 0
                       /\ z.zona_ideal_max = 0
                       /\ z.distancia_zona_pct = 0
               /\ z.estado # "Datos insuficientes"
                    => /\ z.soporte_mm200 = RoundDiv(SumaUltimos(200), 200)
                       /\ z.soporte_bollinger = b.banda_inferior
                       /\ z.zona_ideal_min = Min(z.soporte_mm200, b.banda_inferior)
                       /\ z.zona_ideal_max = Max(z.soporte_mm200, b.banda_inferior)
                       /\ z.zona_ideal_min <= z.zona_ideal_max
                       /\ z.estado = "Zona de entrada activa"
                            <=> UltimoCierre <= z.zona_ideal_max
                       /\ z.estado = "Esperar retroceso"
                            <=> UltimoCierre > z.zona_ideal_max
                       /\ z.estado = "Zona de entrada activa"
                            => z.distancia_zona_pct = 0
                       /\ z.estado = "Esperar retroceso"
                            => z.distancia_zona_pct
                                 = RoundDiv(10000 * (UltimoCierre - z.zona_ideal_max),
                                            UltimoCierre)

\* the price is above a zone that is not a point, at a rounded distance
C16_Witness ==
    /\ pc # "fetched"
    /\ Len(datos_historicos) >= 200
    /\ indicadores # None
    /\ indicadores.zona_entrada.estado = "Esperar retroceso"
    /\ indicadores.zona_entrada.zona_ideal_min < indicadores.zona_entrada.zona_ideal_max
    /\ indicadores.zona_entrada.distancia_zona_pct > 0
    /\ indicadores.zona_entrada.distancia_zona_pct * UltimoCierre
         # 10000 * (UltimoCierre - indicadores.zona_entrada.zona_ideal_max)

\* the level of a number of risk points
NivelDePuntos(puntos) ==
    CASE puntos >= 3      -> "Alto"
      [] puntos \in 1..2  -> "Medio"
      [] puntos = 0       -> "Bajo"

\* C17: the three risk levels of the bundle are the levels of these points
\* (3 or more "Alto", 1 or 2 "Medio", 0 "Bajo"): short term 2 for an RSI
\* above 70, otherwise 1 for an RSI below 30, plus 2 for the upper Bollinger
\* band, plus 1 for a volume deviation above 50; medium term 2 for a beta
\* above 1.5, otherwise 1 for a beta above 1.0, plus 1 for the upper
\* Bollinger band; long term 2 for a beta above 1.8, otherwise 1 for a beta
\* above 1.3, whatever the RSI, the volume and the Bollinger position.
C17_NivelesDeRiesgo ==
    pc # "fetched" /\ Len(datos_historicos) >= 30 /\ indicadores # None
        => LET beta == company_data.profile.beta
               rsi  == indicadores.rsi.valor
               superior == indicadores.bollinger.posicion = "Banda superior"
               variacion == indicadores.volumen.variacion_pct
               corto == (IF rsi > 7000 THEN 2 ELSE IF rsi < 3000 THEN 1 ELSE 0)
                        + (IF superior THEN 2 ELSE 0)
                        + (IF variacion > 5000 THEN 1 ELSE 0)
               medio == (IF beta > 150 THEN 2 ELSE IF beta > 100 THEN 1 ELSE 0)
                        + (IF superior THEN 1 ELSE 0)
               largo == IF beta > 180 THEN 2 ELSE IF beta > 130 THEN 1 ELSE 0
           IN  /\ indicadores.riesgos.riesgo_corto_plazo = NivelDePuntos(corto)
               /\ indicadores.riesgos.riesgo_medio_plazo = NivelDePuntos(medio)
               /\ indicadores.riesgos.riesgo_largo_plazo = NivelDePuntos(largo)

\* the three synthesis paragraphs
Sintesis ==
    {"P6 alta calidad", "P6 potencial interesante, entrada cautelosa",
     "P6 desafios significativos"}

\* C18: the executive summary of a returned analysis is never empty; its
\* last paragraph is the synthesis, which is the high-quality text exactly
\* when score_total >= 70, the interesting-but-cautious text exactly when
\* 50 <= score_total <= 69 and the significant-challenges text exactly when
\* score_total < 50; no other paragraph of the summary is a synthesis.
C18_SintesisAlFinal ==
    pc = "done" /\ excepcion = ""
        => LET resumen == analisis.resumen_ejecutivo
               score   == analisis.score.score_total
               ultimo  == resumen[Len(resumen)]
           IN  /\ resumen # <<>>
               /\ ultimo \in Sintesis
               /\ ultimo = "P6 alta calidad" <=> score >= 70
               /\ ultimo = "P6 potencial interesante, entrada cautelosa"
                    <=> score \in 50..69
               /\ ultimo = "P6 desafios significativos" <=> score < 50
               /\ Cardinality({i \in 1..Len(resumen) : resumen[i] \in Sintesis}) = 1

\* a summary of all six paragraphs for a score on the edge of the top tier
C18_Witness ==
    /\ pc = "done"
    /\ excepcion = ""
    /\ analisis.score.score_total = 70
    /\ Len(analisis.resumen_ejecutivo) = 6
    /\ analisis.resumen_ejecutivo[6] = "P6 alta calidad"

\* C19: generar_analisis_completo, with calcular_score,
\* generar_resumen_ejecutivo, identificar_riesgos and
\* identificar_oportunidades inside it, leaves company_data and indicadores
\* as they were, whether it returns or raises; calcular_todos_indicadores
\* leaves the price history as it was, and the step it belongs to leaves
\* every entry the snapshot already had as it was.
C19_EntradasIntactas ==
    [][/\ GenerarAnalisisCompleto
            => /\ company_data' = company_data
               /\ indicadores' = indicadores
               /\ datos_historicos' = datos_historicos
       /\ CalcularTodosIndicadores
            => /\ datos_historicos' = datos_historicos
               /\ \A k \in DOMAIN company_data :
                      company_data'[k] = company_data[k]]_vars

\* both stages have run on a 200-bar history and the analysis was returned
C19_Witness ==
    /\ pc = "done"
    /\ excepcion = ""
    /\ Len(datos_historicos) >= 200
    /\ indicadores # None
    /\ analisis # None
    /\ company_data.technical_indicators = indicadores

\* C20: the shares sub-score of a returned analysis is 3 when the shares
\* data is absent; otherwise it is 7, the highest value, exactly for a trend
\* below -5, 5 for a trend from -5 up to but not -2 (so 5 for -3.2), 0 for
\* a trend above 7, and non-increasing in the trend: no lower trend scores
\* less and no higher trend scores more.
C20_AccionesPorBandas ==
    pc = "done" /\ excepcion = ""
        => LET acciones == Get(company_data, "shares_outstanding", EmptyDict)
               puntos   == analisis.score.desglose.contexto_acciones
               trend    == Get(acciones, "shares_trend_3y", 0)
               de(otro) == puntuar_acciones_circulacion(
                               [acciones EXCEPT !.shares_trend_3y = otro])
           IN  /\ Falsy(acciones) => puntos = 3
               /\ ~Falsy(acciones)
                    => /\ puntos \in 0..7
                       /\ puntos = 7 <=> trend < -500
                       /\ (-500 <= trend /\ trend < -200) => puntos = 5
                       /\ trend = -320 => puntos = 5
                       /\ trend > 700 => puntos = 0
                       /\ \A otro \in TendenciasLimite :
                            /\ otro <= trend => de(otro) >= puntos
                            /\ otro >= trend => de(otro) <= puntos

\* an analysis of shares that shrank by exactly 5 per cent
C20_Witness ==
    /\ pc = "done"
    /\ excepcion = ""
    /\ ~Falsy(company_data.shares_outstanding)
    /\ company_data.shares_outstanding.shares_trend_3y = -500
    /\ analisis.score.desglose.contexto_acciones = 5

\* PER and P/B values beside the band edges of sector_ejemplo (ratios 0.7,
\* 0.9, 1.1 and 1.3 of 24.10 and of 5.80), with a zero and a negative value.
\* The PER 31.33 is left out: its binary quotient falls below 1.3.
PerLimite == {-500, 0, 1, 1686, 1687, 2168, 2169, 2650, 2651, 3132, 3134, 9000}

PbLimite == {-100, 0, 1, 405, 406, 521, 522, 637, 638, 753, 754, 2000}

\* the band of a positive ratio valor / valor_sector, from 1 (below 0.7) to
\* 5 (1.3 and above)
BandaDeRatio(valor, valor_sector) ==
    CASE valor * 10 < 7 * valor_sector   -> 1
      [] valor * 10 >= 7 * valor_sector /\ valor * 10 < 9 * valor_sector   -> 2
      [] valor * 10 >= 9 * valor_sector /\ valor * 10 < 11 * valor_sector  -> 3
      [] valor * 10 >= 11 * valor_sector /\ valor * 10 < 13 * valor_sector -> 4
      [] valor * 10 >= 13 * valor_sector -> 5

\* the price sub-score of the analysed snapshot with other PER and P/B values
ValoracionCon(per, pb) ==
    puntuar_precio_valoracion(
        [company_data.fundamentals EXCEPT !.pe_ratio = per, !.price_to_book = pb],
        company_data.sector)

\* the analysis was returned for a snapshot with fundamentals and a sector
\* whose PER and P/B are positive
ValoracionPuntuada ==
    /\ pc = "done" /\ excepcion = ""
    /\ ~Falsy(company_data.fundamentals) /\ ~Falsy(company_data.sector)
    /\ DOMAIN company_data.sector = DOMAIN sector_ejemplo
    /\ company_data.sector.sector_pe > 0
    /\ company_data.sector.sector_pb > 0

\* C21 (as stated): the price sub-score is non-increasing in
\* pe_ratio / sector_pe and in price_to_book / sector_pb, whatever the
\* values: no snapshot with a lower ratio scores less, none with a higher
\* ratio scores more.
C21_ValoracionDecreciente ==
    ValoracionPuntuada
        => LET per    == company_data.fundamentals.pe_ratio
               pb     == company_data.fundamentals.price_to_book
               puntos == analisis.score.desglose.precio_valoracion
           IN  /\ \A otro \in PerLimite :
                    /\ otro <= per => ValoracionCon(otro, pb) >= puntos
                    /\ otro >= per => ValoracionCon(otro, pb) <= puntos
               /\ \A otro \in PbLimite :
                    /\ otro <= pb => ValoracionCon(per, otro) >= puntos
                    /\ otro >= pb => ValoracionCon(per, otro) <= puntos

\* C21 (amended): among positive PER values the price sub-score is
\* non-increasing in pe_ratio / sector_pe, among positive P/B values in
\* price_to_book / sector_pb; the PER pays 8, 6, 4, 2, 1 and the P/B
\* 7, 5, 4, 2, 1 points for the bands cut at the ratios 0.7, 0.9, 1.1 and
\* 1.3, a PER that is zero or negative pays the neutral 4 and such a P/B the
\* neutral 3; a PER ratio in [1.1, 1.3) pays the fourth band's 2 points, so
\* PER 28.4 and P/B 7.2 against 24.1 and 5.8 score 4, below the maximum 15.
C21_ValoracionPorBandas ==
    ValoracionPuntuada
        => LET per    == company_data.fundamentals.pe_ratio
               pb     == company_data.fundamentals.price_to_book
               per_s  == company_data.sector.sector_pe
               pb_s   == company_data.sector.sector_pb
               puntos == analisis.score.desglose.precio_valoracion
               de_per == IF per > 0
                         THEN <<8, 6, 4, 2, 1>>[BandaDeRatio(per, per_s)] ELSE 4
               de_pb  == IF pb > 0
                         THEN <<7, 5, 4, 2, 1>>[BandaDeRatio(pb, pb_s)] ELSE 3
           IN  /\ puntos = de_per + de_pb
               /\ per > 0 =>
                    \A otro \in {o \in PerLimite : o > 0} :
                        /\ otro <= per => ValoracionCon(otro, pb) >= puntos
                        /\ otro >= per => ValoracionCon(otro, pb) <= puntos
               /\ pb > 0 =>
                    \A otro \in {o \in PbLimite : o > 0} :
                        /\ otro <= pb => ValoracionCon(per, otro) >= puntos
                        /\ otro >= pb => ValoracionCon(per, otro) <= puntos
               /\ (per > 0 /\ BandaDeRatio(per, per_s) = 4) => puntos < 15
               /\ (per = 2840 /\ pb = 720 /\ per_s = 2410 /\ pb_s = 580)
                    => puntos = 4

\* the example of the claim has been scored
C21_Witness ==
    /\ ValoracionPuntuada
    /\ company_data.fundamentals.pe_ratio = 2840
    /\ company_data.fundamentals.price_to_book = 720
    /\ company_data.sector = sector_ejemplo
    /\ analisis.score.desglose.precio_valoracion = 4

\* the bundle the analysis was made of: {} for a missing one
BundleAnalizado == IF Falsy(indicadores) THEN EmptyDict ELSE indicadores

\* the points of one risk level
PuntosDeNivel(nivel) ==
    CASE nivel = "Bajo"  -> 3
      [] nivel = "Medio" -> 2
      [] nivel = "Alto"  -> 0

\* C22: the risk-context sub-score of a returned analysis is the sum over
\* the short-, medium- and long-term risk levels of Bajo = 3, Medio = 2,
\* Alto = 0, capped at 8, and it is 4 when the bundle is empty or carries
\* no risk levels.
C22_ContextoDeRiesgo ==
    pc = "done" /\ excepcion = ""
        => LET puntos == analisis.score.desglose.contexto_beta
           IN  IF "riesgos" \in DOMAIN BundleAnalizado
               THEN LET r == BundleAnalizado.riesgos
                        suma == PuntosDeNivel(r.riesgo_corto_plazo)
                                + PuntosDeNivel(r.riesgo_medio_plazo)
                                + PuntosDeNivel(r.riesgo_largo_plazo)
                    IN  puntos = IF suma > 8 THEN 8 ELSE suma
               ELSE puntos = 4

\* the engine found the three levels, "Alto" among them
C22_Witness ==
    /\ pc = "done"
    /\ excepcion = ""
    /\ Len(datos_historicos) >= 30
    /\ indicadores # None
    /\ indicadores.riesgos.riesgo_corto_plazo = "Alto"
    /\ indicadores.riesgos.riesgo_medio_plazo = "Medio"
    /\ indicadores.riesgos.riesgo_largo_plazo = "Bajo"
    /\ analisis.score.desglose.contexto_beta = 5

\* the bundle analysed carries the three moving averages
TresMedias ==
    /\ "medias_moviles" \in DOMAIN BundleAnalizado
    /\ \A k \in {"mm50", "mm100", "mm200"} :
          BundleAnalizado.medias_moviles[k] # None

\* C23: when the three moving averages are available, the moving-average
\* sub-score is 2 if the price is above MM50, plus 3 if it is above MM100,
\* plus 5 if it is above MM200, hence one of 0, 2, 3, 5, 7, 8, 10; in a
\* bundle of the engine "above" compares the last close with the average
\* the bundle reports.
C23_PesosDeMedias ==
    pc = "done" /\ excepcion = "" /\ TresMedias
        => LET mm     == BundleAnalizado.medias_moviles
               puntos == analisis.score.desglose.medias_moviles
           IN  /\ puntos = (IF mm.mm50.precio_encima THEN 2 ELSE 0)
                           + (IF mm.mm100.precio_encima THEN 3 ELSE 0)
                           + (IF mm.mm200.precio_encima THEN 5 ELSE 0)
               /\ puntos \in {0, 2, 3, 5, 7, 8, 10}
               /\ Len(datos_historicos) >= 30
                    => \A k \in {"mm50", "mm100", "mm200"} :
                          mm[k].precio_encima <=> UltimoCierre > mm[k].valor

\* the price is above MM50 and MM200 but not above MM100
C23_Witness ==
    /\ pc = "done"
    /\ excepcion = ""
    /\ TresMedias
    /\ indicadores.medias_moviles.mm50.precio_encima
    /\ ~indicadores.medias_moviles.mm100.precio_encima
    /\ indicadores.medias_moviles.mm200.precio_encima
    /\ analisis.score.desglose.medias_moviles = 7

\* arguments of evaluar_riesgos on both sides of each of its thresholds
BetasDeRiesgo == {-100, 0, 100, 101, 130, 131, 150, 151, 180, 181, 500}

RsiDeRiesgo == {None} \cup {Num(v) : v \in {0, 2999, 7001}}

VariacionesDeRiesgo == {0, 5001}

PosicionesDeRiesgo == {"Banda superior", "Banda media", "Banda inferior"}

\* C24: for every beta, RSI, volume deviation and Bollinger position
\* evaluar_riesgos returns "Bajo" or "Medio" for the long term, never "Alto";
\* so every bundle of the engine has a long-term level other than "Alto" and
\* a risk-context sub-score of at least 2.
C24_LargoPlazoNuncaAlto ==
    /\ \A beta \in BetasDeRiesgo \cup {Get(Get(company_data, "profile", EmptyDict),
                                           "beta", 100)},
          rsi \in RsiDeRiesgo, v \in VariacionesDeRiesgo, pos \in PosicionesDeRiesgo :
          evaluar_riesgos(beta, rsi, v, pos).riesgo_largo_plazo \in {"Bajo", "Medio"}
    /\ pc # "fetched" /\ Len(datos_historicos) >= 30 /\ indicadores # None
         => /\ indicadores.riesgos.riesgo_largo_plazo \in {"Bajo", "Medio"}
            /\ puntuar_contexto_beta(indicadores) >= 2
            /\ pc = "done" /\ excepcion = ""
                 => analisis.score.desglose.contexto_beta >= 2

\* a bundle of the engine with the strongest long-term risk, beta 1.9
C24_Witness ==
    /\ pc = "done"
    /\ excepcion = ""
    /\ Len(datos_historicos) >= 30
    /\ indicadores # None
    /\ company_data.profile.beta = 190
    /\ indicadores.riesgos.riesgo_largo_plazo = "Medio"
    /\ analisis.score.desglose.contexto_beta >= 2

\* the findings about the entry zone
RiesgoDeZona == "Precio actual por encima de la zona de entrada"

OportunidadDeZona == "El precio actual se encuentra dentro de la zona de entrada"

EnLista(lista, texto) == \E i \in 1..Len(lista) : lista[i] = texto

\* the state of the entry zone of the bundle analysed, "" without one
EstadoDeZona ==
    IF "zona_entrada" \in DOMAIN BundleAnalizado
       /\ "estado" \in DOMAIN BundleAnalizado.zona_entrada
    THEN BundleAnalizado.zona_entrada.estado
    ELSE ""

\* C25: in a returned analysis the risk finding "price above the entry
\* zone" and the opportunity finding "price inside the entry zone" are never
\* both present; the first is present exactly in the state "Esperar
\* retroceso" and the second exactly in the state "Zona de entrada activa",
\* so with a defined zone exactly one of them is present and the two lists
\* are not both their fallback entry; the engine reports no other state
\* than these two and "Datos insuficientes".
C25_ZonaEnUnaSolaLista ==
    pc = "done" /\ excepcion = ""
        => LET en_riesgos == EnLista(analisis.riesgos, RiesgoDeZona)
               en_oportunidades == EnLista(analisis.oportunidades, OportunidadDeZona)
           IN  /\ ~(en_riesgos /\ en_oportunidades)
               /\ en_riesgos <=> EstadoDeZona = "Esperar retroceso"
               /\ en_oportunidades <=> EstadoDeZona = "Zona de entrada activa"
               /\ EstadoDeZona \in {"Esperar retroceso", "Zona de entrada activa"}
                    => /\ en_riesgos # en_oportunidades
                       /\ ~(/\ analisis.riesgos = <<RiesgoFallback>>
                            /\ analisis.oportunidades = <<OportunidadFallback>>)
               /\ Len(datos_historicos) >= 30
                    => EstadoDeZona \in {"Esperar retroceso", "Zona de entrada activa",
                                         "Datos insuficientes"}

\* the engine found the price above the zone and the analysis says so in its
\* risks only
C25_Witness ==
    /\ pc = "done"
    /\ excepcion = ""
    /\ Len(datos_historicos) >= 200
    /\ EstadoDeZona = "Esperar retroceso"
    /\ EnLista(analisis.riesgos, RiesgoDeZona)
    /\ ~EnLista(analisis.oportunidades, OportunidadDeZona)

\* the places of the portfolio held by a ticker
LugaresDe(c, ticker) == {i \in 1..Len(c) : c[i].ticker = ticker}

\* a step of añadir_a_cartera(ticker, ...): a position of the ticker stays
\* where it is with the date of its purchase, a new one goes to the end;
\* every other position stays as it is
AnadidoEnSuSitio(ticker) ==
    /\ Cardinality(LugaresDe(cartera', ticker)) = 1
    /\ \A i \in 1..Len(cartera) :
          /\ cartera'[i].ticker = cartera[i].ticker
          /\ cartera'[i].fecha_compra = cartera[i].fecha_compra
          /\ cartera[i].ticker # ticker => cartera'[i] = cartera[i]
    /\ IF LugaresDe(cartera, ticker) # {}
       THEN Len(cartera') = Len(cartera)
       ELSE /\ Len(cartera') = Len(cartera) + 1
            /\ cartera'[Len(cartera')].ticker = ticker

\* a step of eliminar_de_cartera(ticker): the positions of the other tickers
\* are left, in their order, and nothing else
EliminadoSoloEl(ticker) ==
    /\ LugaresDe(cartera', ticker) = {}
    /\ Len(cartera') = Len(cartera) - Cardinality(LugaresDe(cartera, ticker))
    /\ \A i \in 1..Len(cartera) :
          cartera[i].ticker # ticker
            => cartera'[i - Cardinality({j \in LugaresDe(cartera, ticker) : j < i})]
                 = cartera[i]

\* C26: from the empty portfolio on, the portfolio holds at most one
\* position per ticker; añadir_a_cartera of a ticker already held updates
\* its position where it is, keeping its fecha_compra, and leaves every
\* other position unchanged, and of a new ticker appends one position;
\* eliminar_de_cartera removes the positions of its ticker and no others.
C26_UnaPosicionPorTicker ==
    /\ [](\A ticker \in Tickers : Cardinality(LugaresDe(cartera, ticker)) <= 1)
    /\ [][/\ AnadirACartera => \E ticker \in Tickers : AnadidoEnSuSitio(ticker)
          /\ EliminarDeCartera => \E ticker \in Tickers : EliminadoSoloEl(ticker)]_vars

\* the first of two positions was bought at 0 and updated at 1
C26_Witness ==
    /\ Len(cartera) = 2
    /\ cartera[1].fecha_compra = 0
    /\ cartera[1].fecha_actualizacion = 1
    /\ cartera[2].ticker # cartera[1].ticker

\* C27: after a call of añadir_a_cartera or eliminar_de_cartera whose write
\* did not fail, the file holds the portfolio in memory, and a later
\* cargar_cartera_desde_excel leaves the portfolio as that call left it: no
\* position comes back that was deleted.
C27_ArchivoAlDia ==
    /\ [](guardado = "True" => archivo = a_excel(cartera))
    /\ [][CargarCarteraDesdeExcel /\ guardado \in {"True", "None"}
              => cartera' = cartera]_vars

\* the notifications of one kind among the messages posted
Notificaciones(tipo) == {p \in peticiones : p.tipo = tipo}

TickersNotificados(tipo) == {p.ticker : p \in Notificaciones(tipo)}

\* the previous portfolio as a list: empty when there is none
ListaAnterior == IF cartera_anterior = None THEN <<>> ELSE cartera_anterior.lista

TodosLosTickers == {Nombres[i] : i \in 1..Len(Nombres)}

\* the score of the position of a ticker in a portfolio
ScoreEn(c, ticker) == c[CHOOSE i \in 1..Len(c) : c[i].ticker = ticker].score

\* the threshold in force: SCORE_CHANGE_THRESHOLD, 5 when it is not set
UmbralVigente ==
    IF "SCORE_CHANGE_THRESHOLD" \in DOMAIN secretos
    THEN secretos["SCORE_CHANGE_THRESHOLD"] ELSE 5

EnTop10(c, ticker) ==
    \E i \in 1..Len(c) :
        /\ c[i].ticker = ticker
        /\ Cardinality({j \in 1..Len(c) :
                \/ c[j].score > c[i].score
                \/ c[j].score = c[i].score /\ j < i}) < 10

\* C29: with an active bot the monitor sends one enter-top-10 notification
\* for each ticker that is in the top 10 of the current portfolio and was
\* not in the top 10 of the previous one, and one exit-top-10 notification
\* for each ticker that was in the previous top 10, is not in the current
\* one and is still in the current portfolio; a ticker that left the
\* portfolio gets no exit notification, and without a previous portfolio
\* every ticker of the current top 10 gets an enter notification.
C29_EntradasYSalidas ==
    pc_bot = "monitoreado" /\ bot.activo
        => /\ TickersNotificados("entrada_top10")
                = {t \in TodosLosTickers :
                      EnTop10(cartera_actual, t) /\ ~EnTop10(ListaAnterior, t)}
           /\ TickersNotificados("salida_top10")
                = {t \in TodosLosTickers :
                      /\ EnTop10(ListaAnterior, t)
                      /\ ~EnTop10(cartera_actual, t)
                      /\ \E i \in 1..Len(cartera_actual) : cartera_actual[i].ticker = t}
           /\ \A tipo \in {"entrada_top10", "salida_top10"} :
                 Cardinality(Notificaciones(tipo)) = Cardinality(TickersNotificados(tipo))
           /\ \A p \in Notificaciones("salida_top10") :
                 \E i \in 1..Len(cartera_actual) : cartera_actual[i].ticker = p.ticker
           /\ ListaAnterior = <<>>
                => /\ TickersNotificados("entrada_top10")
                        = {t \in TodosLosTickers : EnTop10(cartera_actual, t)}
                   /\ Notificaciones("salida_top10") = {}

\* one ticker entered the top 10 and another left it, while a ticker of the
\* previous top 10 was sold
C29_Witness ==
    /\ pc_bot = "monitoreado"
    /\ bot.activo
    /\ Notificaciones("entrada_top10") # {}
    /\ Notificaciones("salida_top10") # {}
    /\ \E t \in TodosLosTickers :
          /\ EnTop10(ListaAnterior, t)
          /\ \A i \in 1..Len(cartera_actual) : cartera_actual[i].ticker # t

\* C30: enviar_mensaje ends with True or False and never with an exception;
\* on a bot that is not active it returns False and posts nothing; on an
\* active bot it posts the message once and returns True exactly when the
\* answer has status 200, False for any other status and for a failed
\* request; a bot made without one of its two credentials is not active.
C30_EnviarNuncaFalla ==
    /\ pc_bot # "nuevo"
         => /\ ({"TELEGRAM_BOT_TOKEN", "TELEGRAM_CHAT_ID"} \ DOMAIN secretos) # {}
                 => ~bot.activo
            /\ bot.activo => {"base_url", "chat_id"} \subseteq DOMAIN bot
    /\ pc_bot = "enviado"
         => /\ retorno \in {"True", "False"}
            /\ ~bot.activo
                 => retorno = "False" /\ peticiones = {} /\ respuesta = ""
            /\ bot.activo
                 => /\ Cardinality(peticiones) = 1
                    /\ retorno = "True" <=> respuesta = "200"

\* the server answered 500 to an active bot and enviar_mensaje returned False
C30_Witness ==
    /\ pc_bot = "enviado"
    /\ bot.activo
    /\ respuesta = "500"
    /\ retorno = "False"

=============================================================================
